---- MODULE Spec2Model ----
(***************************************************************************)
(* Verification model of the shopping-assistant chat gateway:              *)
(*   - the remote execution gateway (LangGraphClient): the conversation -> *)
(*     thread cache, ensureThread, callAgentWithStream, evictStaleThreads; *)
(*   - the standards-based CIBA client: pollCIBAResult and                 *)
(*     performCIBAAuthorization;                                           *)
(*   - the standards-based coordinator: withCIBAAuthorization,             *)
(*     withAsyncUserConfirmation, resetAuthorizationState;                 *)
(*   - the chat-stream reclassifier, the Auth0 coordinator, the provider   *)
(*     selector and the status query;                                      *)
(*   - the event-stream decoder parseSSE, the fallback authorization       *)
(*     module, and the abort of the enclosing request;                     *)
(*   - the status messages of manual-ciba.ts, the workflow-context         *)
(*     tracking of the reclassifier, and the chat endpoint's SSE response. *)
(***************************************************************************)
EXTENDS Integers, Sequences, FiniteSets, TLC

(***************************************************************************)
(* Bounds of the model                                                     *)
(***************************************************************************)
\* number of callAgentWithStream calls started over a behaviour
MaxCalls == 2
\* the clock runs from 0 to MaxTime ticks
MaxTime == 2
\* number of events one run stream delivers before it ends
MaxEvents == 2
\* largest maxAttempts of a direct pollCIBAResult call
MaxPollAttempts == 3
\* largest expires_in (seconds) the authorize endpoint answers
MaxExpiresIn == 3
\* number of threads the remote service creates
MaxThreads == 2
\* maxRetries of the client in the two-caller specification
MaxRetriesShared == 1
\* number of chunks one agent stream yields
MaxChunks == 3
\* largest number of parts (data lines, line breaks, blank-line separators) of
\* a response body
MaxSseParts == 4
\* chunks of the agent stream handled for one chat response
MaxChatChunks == 2

(***************************************************************************)
(* Program constants                                                       *)
(***************************************************************************)
\* constructor default maxRetries = 3
MaxRetries == 3
\* constructor default retryDelay = 1000 (ms)
RetryDelay == 1000
\* Math.floor(Math.random() * 100): jitter is an integer in 0 .. 99
JitterRange == 100
\* the jitter values drawn in the one-caller specification: both ends of
\* 0 .. JitterRange - 1, their neighbours and a middle value
JitterSamples == {0, 1, JitterRange \div 2, JitterRange - 2, JitterRange - 1}
\* evictStaleThreads(60 * 60 * 1000): the TTL of one hour, in clock ticks of
\* one hour
TtlTicks == 1

\* the poll intervals (seconds) drawn
PollIntervals == {1, 2}

Convs == {"c1", "c2"}
Procs == {"p1", "p2"}
NoThread == 0
NoTs == -1

(***************************************************************************)
(* Messages and stream events                                              *)
(***************************************************************************)
\* content of a message: a string, a structured (non-string) value or absent
StrContent(s) == [t |-> "str", v |-> s]
ObjContent(s) == [t |-> "obj", v |-> s]
NoContent == [t |-> "none", v |-> ""]

\* JavaScript truthiness of m.content
Truthy(c) ==
  CASE c.t = "str" -> c.v # ""
    [] c.t = "obj" -> TRUE
    [] OTHER -> FALSE

\* typeof c === 'string' ? c : JSON.stringify(c)
ContentString(c) == IF c.t = "str" THEN c.v ELSE "{" \o c.v \o "}"

\* a message of the remote state: role and/or type, and content
Msg(role, type, content) == [role |-> role, type |-> type, content |-> content]

\* (m.type === 'ai' || m.role === 'assistant') && m.content
IsAssistantWithContent(m) ==
  (m.type = "ai" \/ m.role = "assistant") /\ Truthy(m.content)

\* mutant of ScanNewest: the scan runs oldest to newest
RECURSIVE ScanOldestFrom(_, _, _)
ScanOldestFrom(msgs, i, k) ==
  IF k > i THEN 0
  ELSE IF IsAssistantWithContent(msgs[k]) THEN k
  ELSE ScanOldestFrom(msgs, i, k + 1)

ScanOldest(msgs, i) == ScanOldestFrom(msgs, i, 1)

\* for (i = length - 1; i >= 0; i--) ... break : index of the newest
\* assistant message with content, 0 when there is none
RECURSIVE ScanNewest(_, _)
ScanNewest(msgs, i) ==
  IF i = 0 THEN 0
  ELSE IF IsAssistantWithContent(msgs[i]) THEN i
  ELSE ScanNewest(msgs, i - 1)

MsgPool ==
  { Msg("assistant", "", StrContent("hi")),
    Msg("assistant", "", StrContent("")),
    Msg("", "ai", StrContent("yo")),
    Msg("human", "human", StrContent("q")),
    Msg("assistant", "", ObjContent("blk")) }

MsgLists == {<<>>} \cup { <<m>> : m \in MsgPool }
              \cup { <<m1, m2>> : m1 \in MsgPool, m2 \in MsgPool }

\* decoded SSE events handed to the callback of callAgentWithStream
MessagesEvent(ms) == [kind |-> "messages", messages |-> ms, s |-> ""]
PartialEvent(s) == [kind |-> "partial", messages |-> <<>>, s |-> s]
TextEvent(s) == [kind |-> "text", messages |-> <<>>, s |-> s]
OtherEvent == [kind |-> "other", messages |-> <<>>, s |-> ""]

Events ==
  { MessagesEvent(ms) : ms \in MsgLists }
    \cup { PartialEvent("pa"), PartialEvent("pb"), TextEvent("tx"), TextEvent(""), OtherEvent }

(***************************************************************************)
(* Errors thrown inside the try block of callAgentWithStream               *)
(***************************************************************************)
\* an error: whether it is a TypeError, and the words of its message
Err(isType, words) == [typeError |-> isType, words |-> words]

Lower(w) ==
  CASE w = "Timeout" -> "timeout"
    [] w = "Network" -> "network"
    [] OTHER -> w

\* /timeout|network|ECONNRESET|ENOTFOUND/i.test(err.message)
MatchesTransient(words) ==
  \E i \in 1..Len(words) :
    Lower(words[i]) \in {"timeout", "network", "econnreset", "enotfound"}

\* err instanceof TypeError || (err instanceof Error && regex.test(message))
IsTransient(e) == e.typeError \/ MatchesTransient(e.words)

\* response status lines `${status} ${statusText}` of the remote service
StatusLines ==
  { <<"404", "Not", "Found">>,
    <<"500", "Internal", "Server", "Error">>,
    <<"504", "Gateway", "Timeout">> }

\* fetch rejects (connection reset, DNS failure): a TypeError
ErrFetchFailed == Err(TRUE, <<"fetch", "failed">>)
\* `Failed to create thread: ${res.status} ${res.statusText}`
ErrCreateNotOk(line) == Err(FALSE, <<"Failed", "to", "create", "thread:">> \o line)
\* 'LangGraph created thread but returned no id'
ErrNoId == Err(FALSE, <<"LangGraph", "created", "thread", "but", "returned", "no", "id">>)
\* `LangGraph agent error: ${resp.status} ${resp.statusText} ${text}`
ErrAgent(line) == Err(FALSE, <<"LangGraph", "agent", "error:">> \o line)
\* 'No response body reader from LangGraph'
ErrNoReader == Err(FALSE, <<"No", "response", "body", "reader", "from", "LangGraph">>)

\* what POST /threads can answer: a thread id, no id, a non-ok status, no answer
CreateFailures ==
  {ErrFetchFailed, ErrNoId} \cup { ErrCreateNotOk(l) : l \in StatusLines }
\* what POST /threads/{id}/runs/stream can answer besides an ok stream
RunFailures ==
  {ErrFetchFailed, ErrNoReader} \cup { ErrAgent(l) : l \in StatusLines }

\* the apology returned instead of raising (agent id fixed to "agent")
Apology == "apology:agent"

(***************************************************************************)
(* State                                                                   *)
(***************************************************************************)
VARIABLES
  \* ---- gateway (planner.ts) ----
  conversationThreadMap,         \* conversation id -> thread id or NoThread
  conversationThreadTimestamps,  \* conversation id -> last-touched time or NoTs
  now,                           \* Date.now(), in ticks
  threadsCreated,                \* ids handed out by the remote service so far
  calls,                         \* callAgentWithStream calls started so far
  pc,                            \* per caller: position in callAgentWithStream
  conv,                          \* per caller: opts.conversationId
  attempt,                       \* per caller: local `attempt`
  threadId,                      \* per caller: result of ensureThread
  messages,                      \* per caller: local `messages`
  lastContent,                   \* per caller: local `lastContent`
  evlog,                         \* per caller: events delivered in this attempt
  backoff,                       \* per caller: the wait before the retry, in ms
  overlapWith,                   \* per caller: the caller whose create-thread request was in
                                 \* flight for the same conversation when ensureThread started
  evictedThread,                 \* conversation id -> thread id the last sweep removed
  maxRetries,                    \* this.maxRetries of the client
  lastErr,                       \* per caller: the error its catch block caught last
  result                         \* per caller: the returned AgentCallResult

VARIABLES
  \* ---- standards-based coordinator and CIBA client ----
  authorizationState,  \* the process-wide { status, message }
  wpc,                 \* per attempt: position in the wrapper (or direct caller)
  wrapper,             \* per attempt: which entry point runs
  optAuthReq,          \* per attempt: options.onAuthorizationRequest is given
  optUnauth,           \* per attempt: options.onUnauthorized is given
  ppc,                 \* per attempt: position in performCIBAAuthorization / pollCIBAResult
  interval,            \* per attempt: poll interval in seconds
  maxAttempts,         \* per attempt: maxAttempts of pollCIBAResult
  pollAttempt,         \* per attempt: loop variable `attempt`
  requests,            \* per attempt: token requests issued
  waits,               \* per attempt: interval waits completed
  waited,              \* per attempt: seconds waited in total
  responses,           \* per attempt: the provider's answers so far
  pollResult,          \* per attempt: how performCIBAAuthorization settled
  toolInvoked,         \* per attempt: the wrapped tool function was called
  unauthCalls,         \* per attempt: calls of options.onUnauthorized
  outcome,             \* per attempt: how the wrapper ended
  userInput,           \* per attempt: where the call carries a user id
  userId,              \* per attempt: the user id extractUserId resolved
  expiresIn            \* per attempt: expires_in of its authorization request

\* the user id of an attempt and its sources, and the lifetime of its
\* authorization request
uidVars == <<userInput, userId, expiresIn>>

authVars == <<authorizationState, wpc, wrapper, optAuthReq, optUnauth, ppc,
              interval, maxAttempts, pollAttempt, requests, waits, waited,
              responses, pollResult, toolInvoked, unauthCalls, outcome,
              uidVars>>

gwVars == <<conversationThreadMap, conversationThreadTimestamps, now, calls,
            threadsCreated, pc, conv, attempt, threadId,
            messages, lastContent, evlog, backoff, overlapWith,
            evictedThread, maxRetries, lastErr, result>>

\* ---- the chat-stream reclassifier (chat-stream/route.ts) ----
VARIABLES
  controller,      \* the response stream: open, closed
  chunksRead,      \* chunks taken from the agent stream so far
  lastChunk,       \* the chunk handled by the last loop iteration
  lastEmitted      \* the events that iteration enqueued, in order

rcVars == <<controller, chunksRead, lastChunk, lastEmitted>>

\* ---- the Auth0 coordinator (auth0-ai-langchain.ts), the provider selector
\* ---- (ciba-provider) and the status query (auth-status/route.ts) ----
VARIABLES
  identityProvider,          \* process.env.IDENTITY_PROVIDER
  auth0AuthorizationState,   \* authorizationState of auth0-ai-langchain.ts
  apc,                       \* per attempt: position in the Auth0 flow
  amsg,                      \* per attempt: the binding message it built
  apoll,                     \* per attempt: how its poll promise settled
  served                     \* the GET auth-status response being sent

a0Vars == <<identityProvider, auth0AuthorizationState, apc, amsg, apoll, served>>

\* ---- the event-stream decoder parseSSE (planner.ts) ----
VARIABLES
  sseStream,       \* the body of the run response, as a sequence of tokens
  ssePos,          \* how much of it reader.read() has delivered
  sseBuf,          \* local `buf`
  sseEvents,       \* the events handed to onEvent so far, in order
  sseContent,      \* `lastContent` as the callback of callAgentWithStream folds it
  sseState         \* reading, returned (after [DONE]) or ended (end of body)

sseVars == <<sseStream, ssePos, sseBuf, sseEvents, sseContent, sseState>>

\* ---- the fallback module (auth0-ai-langchain-fallback.ts) ----
VARIABLES
  fbAuthorizationState,  \* authorizationState of the fallback module
  fbpc,                  \* per call: position in the wrapped function
  fbArgs,                \* per call: the arguments the wrapped function got
  fbServed               \* the state a chat response is reporting

fbVars == <<fbAuthorizationState, fbpc, fbArgs, fbServed>>

\* ---- the enclosing HTTP request ----
VARIABLES
  aborted          \* the caller has disconnected: the request is aborted

reqVars == <<aborted>>

\* ---- the Auth0 coordinator of manual-ciba.ts and its status messages ----
VARIABLES
  mcAuthorizationState,          \* authorizationState of manual-ciba.ts
  authorizationStatusMessages,   \* the stored ephemeral status messages
  isToolExecutionInProgress,     \* set by the 'approved' phase
  mpc,                           \* per attempt: position in the flow
  mcPublished                    \* per attempt: the message it last published

mcVars == <<mcAuthorizationState, authorizationStatusMessages,
            isToolExecutionInProgress, mpc, mcPublished>>

\* ---- the workflow-context tracking of the reclassifier ----
VARIABLES
  previousWorkflowContext,  \* previousWorkflowContext of the stream
  lastSeenContext,          \* the workflowContext of the latest chunk that carried one
  seenBefore,               \* lastSeenContext before the chunk just handled
  ctxChunk,                 \* the chunk just handled
  ctxMetadata,              \* the metadata type enqueued for it
  ctxRead                   \* chunks handled so far

ctxVars == <<previousWorkflowContext, lastSeenContext, seenBefore, ctxChunk,
             ctxMetadata, ctxRead>>

\* ---- the SSE response of the chat endpoint (chat/route.ts) ----
VARIABLES
  chatPc,                  \* idle, streaming, closed
  chatSent,                \* the events sent on the response, in order
  chatPreviousContext,     \* previousWorkflowContext of the response
  sentProgressTimestamps,  \* timestamps of the progress messages sent
  chatChunks               \* chunks of the agent stream handled so far

chatVars == <<chatPc, chatSent, chatPreviousContext, sentProgressTimestamps,
              chatChunks>>

\* everything but the gateway's state, but the standards-based coordinator's,
\* but the reclassifier's, but the Auth0 coordinator's, but the decoder's,
\* but the fallback module's, but the enclosing request's
nonGwVars == <<authVars, rcVars, a0Vars, sseVars, fbVars, reqVars, mcVars, ctxVars, chatVars>>
nonAuthVars == <<gwVars, rcVars, a0Vars, sseVars, fbVars, reqVars, mcVars, ctxVars, chatVars>>
nonRcVars == <<gwVars, authVars, a0Vars, sseVars, fbVars, reqVars, mcVars, ctxVars, chatVars>>
nonA0Vars == <<gwVars, authVars, rcVars, sseVars, fbVars, reqVars, mcVars, ctxVars, chatVars>>
nonSseVars == <<gwVars, authVars, rcVars, a0Vars, fbVars, reqVars, mcVars, ctxVars, chatVars>>
nonFbVars == <<gwVars, authVars, rcVars, a0Vars, sseVars, reqVars, mcVars, ctxVars, chatVars>>
nonReqVars == <<gwVars, authVars, rcVars, a0Vars, sseVars, fbVars, mcVars, ctxVars, chatVars>>
nonMcVars == <<gwVars, authVars, rcVars, a0Vars, sseVars, fbVars, reqVars, ctxVars, chatVars>>
nonCtxVars == <<gwVars, authVars, rcVars, a0Vars, sseVars, fbVars, reqVars, mcVars, chatVars>>
nonChatVars == <<gwVars, authVars, rcVars, a0Vars, sseVars, fbVars, reqVars, mcVars, ctxVars>>

vars == <<gwVars, authVars, rcVars, a0Vars, sseVars, fbVars, reqVars, mcVars, ctxVars, chatVars>>

\* no error has been caught
NoErr == Err(FALSE, <<>>)

\* no call has returned yet
NoResult == [content |-> "", messages |-> <<>>, ok |-> FALSE, done |-> FALSE]

GatewayInit(retries) ==
  /\ maxRetries = retries
  /\ conversationThreadMap = [c \in Convs |-> NoThread]
  /\ conversationThreadTimestamps = [c \in Convs |-> NoTs]
  /\ now = 0
  /\ threadsCreated = 0
  /\ calls = 0
  /\ pc = [p \in Procs |-> "idle"]
  /\ conv = [p \in Procs |-> "c1"]
  /\ attempt = [p \in Procs |-> 0]
  /\ threadId = [p \in Procs |-> NoThread]
  /\ messages = [p \in Procs |-> <<>>]
  /\ lastContent = [p \in Procs |-> ""]
  /\ evlog = [p \in Procs |-> <<>>]
  /\ backoff = [p \in Procs |-> 0]
  /\ overlapWith = [p \in Procs |-> "none"]
  /\ evictedThread = [c \in Convs |-> NoThread]
  /\ result = [p \in Procs |-> NoResult]
  /\ lastErr = [p \in Procs |-> NoErr]

(***************************************************************************)
(* evictStaleThreads(ttlMs)                                                *)
(***************************************************************************)
\* the entries the sweep deletes: now - ts > ttlMs
IsStale(ts, t, ttl) == ts # NoTs /\ t - ts > ttl

\* a sweep that deletes no timestamp
evictStaleThreadsTsKeep(tss, t, ttl) == tss

evictStaleThreadsTs(tss, t, ttl) ==
  [c \in Convs |-> IF IsStale(tss[c], t, ttl) THEN NoTs ELSE tss[c]]

\* mutant of evictStaleThreadsMap: only the timestamp is deleted
evictStaleThreadsMapKeep(map, tss, t, ttl) == map

evictStaleThreadsMap(map, tss, t, ttl) ==
  [c \in Convs |-> IF IsStale(tss[c], t, ttl) THEN NoThread ELSE map[c]]

(***************************************************************************)
(* ensureThread(conversationId, userId, agentId)                           *)
(***************************************************************************)
\* a hit that leaves the timestamp as it was
TouchNever(tss, c, t) == tss

\* line 90: conversationThreadTimestamps.set(conversationId, this.now())
Touch(tss, c, t) == [tss EXCEPT ![c] = t]

\* lines 88-98: look the binding up; on a hit refresh the timestamp and
\* return the cached id, on a miss issue POST /threads and await the answer
ensureThread(p) ==
  /\ UNCHANGED nonGwVars
  /\ pc[p] = "ensure"
  /\ LET c == conv[p] IN
     IF conversationThreadMap[c] # NoThread
     THEN /\ conversationThreadTimestamps' =
               Touch(conversationThreadTimestamps, c, now)
          /\ threadId' = [threadId EXCEPT ![p] = conversationThreadMap[c]]
          /\ pc' = [pc EXCEPT ![p] = "awaitRun"]
          /\ overlapWith' = [q \in Procs |->
               IF q = p \/ overlapWith[q] = p THEN "none" ELSE overlapWith[q]]
     ELSE /\ threadId' = [threadId EXCEPT ![p] = NoThread]
          /\ pc' = [pc EXCEPT ![p] = "awaitCreate"]
          /\ overlapWith' = [q \in Procs |->
               IF q = p
               THEN IF \E r \in Procs \ {p} : pc[r] = "awaitCreate" /\ conv[r] = c
                    THEN CHOOSE r \in Procs \ {p} : pc[r] = "awaitCreate" /\ conv[r] = c
                    ELSE "none"
               ELSE IF overlapWith[q] = p THEN "none" ELSE overlapWith[q]]
          /\ UNCHANGED conversationThreadTimestamps
  /\ UNCHANGED <<conversationThreadMap, now, threadsCreated, conv, attempt,
                 messages, lastContent, evlog, backoff, evictedThread, result,
                 maxRetries, calls, lastErr>>

(***************************************************************************)
(* callAgentWithStream(opts)                                               *)
(***************************************************************************)
\* mutant of Backoff: the exponent is the attempt number itself
BackoffDoubled(a, j) == RetryDelay * (2 ^ a) + j

\* baseDelay * Math.pow(2, attempt - 1) + Math.floor(Math.random() * 100)
Backoff(a, j) == RetryDelay * (2 ^ (a - 1)) + j

\* mutant of ApologyResult: the catch block returns no message
ApologyResultEmpty ==
  [content |-> Apology, messages |-> <<>>, ok |-> FALSE, done |-> FALSE]

\* the synthetic result of the catch block
ApologyResult ==
  [content |-> Apology,
   messages |-> <<Msg("assistant", "", StrContent(Apology))>>,
   ok |-> FALSE, done |-> FALSE]

\* mutant of GivesUp: one more retry is allowed
GivesUpLate(e, a, max) == ~IsTransient(e) \/ a > max + 1

\* line 214: !isTransient || attempt > max
GivesUp(e, a, max) == ~IsTransient(e) \/ a > max

\* lines 211-221: the catch block, entered with error e; j is the jitter drawn
Catch(p, e, j) ==
  LET a == attempt[p] + 1 IN
  /\ attempt' = [attempt EXCEPT ![p] = a]
  /\ lastErr' = [lastErr EXCEPT ![p] = e]
  /\ messages' = [messages EXCEPT ![p] = <<>>]
  /\ lastContent' = [lastContent EXCEPT ![p] = ""]
  /\ evlog' = [evlog EXCEPT ![p] = <<>>]
  /\ IF GivesUp(e, a, maxRetries)
     THEN /\ result' = [result EXCEPT ![p] = ApologyResult]
          /\ pc' = [pc EXCEPT ![p] = "done"]
          /\ UNCHANGED backoff
     ELSE /\ backoff' = [backoff EXCEPT ![p] = Backoff(a, j)]
          /\ pc' = [pc EXCEPT ![p] = "backoff"]
          /\ UNCHANGED result

\* a caller starts callAgentWithStream for conversation c (lines 146-153);
\* callers are interchangeable: a new call takes the first free slot
StartCall(p, c, maxCalls) ==
  /\ UNCHANGED nonGwVars
  /\ pc[p] = "idle"
  /\ calls < maxCalls
  /\ calls' = calls + 1
  /\ p = "p1" \/ pc["p1"] # "idle"
  /\ conv' = [conv EXCEPT ![p] = c]
  /\ attempt' = [attempt EXCEPT ![p] = 0]
  /\ pc' = [pc EXCEPT ![p] = "ensure"]
  /\ UNCHANGED <<conversationThreadMap, conversationThreadTimestamps, now,
                 threadsCreated, threadId, messages,
                 lastContent, evlog, backoff, overlapWith, evictedThread, result,
                 maxRetries, lastErr>>

\* lines 100-107: POST /threads answered with a thread id
CreateThreadOk(p) ==
  /\ UNCHANGED nonGwVars
  /\ pc[p] = "awaitCreate"
  /\ threadsCreated < MaxThreads
  /\ LET c == conv[p]
         t == threadsCreated + 1 IN
     /\ threadsCreated' = t
     /\ conversationThreadMap' = [conversationThreadMap EXCEPT ![c] = t]
     /\ conversationThreadTimestamps' =
          [conversationThreadTimestamps EXCEPT ![c] = now]
     /\ threadId' = [threadId EXCEPT ![p] = t]
  /\ pc' = [pc EXCEPT ![p] = "awaitRun"]
  /\ UNCHANGED <<now, conv, attempt, messages,
                 lastContent, evlog, backoff, overlapWith, evictedThread, result,
                 maxRetries, calls, lastErr>>

\* lines 94-103 throwing: the request fails, is not ok, or carries no id
CreateThreadFails(p, e, j) ==
  /\ UNCHANGED nonGwVars
  /\ pc[p] = "awaitCreate"
  /\ Catch(p, e, j)
  /\ UNCHANGED <<conversationThreadMap, conversationThreadTimestamps, now,
                 threadsCreated, conv, threadId, overlapWith, evictedThread,
                 maxRetries, calls>>

\* lines 162-175: the run request is answered with an ok event stream
RunOk(p) ==
  /\ UNCHANGED nonGwVars
  /\ pc[p] = "awaitRun"
  /\ messages' = [messages EXCEPT ![p] = <<>>]
  /\ lastContent' = [lastContent EXCEPT ![p] = ""]
  /\ evlog' = [evlog EXCEPT ![p] = <<>>]
  /\ pc' = [pc EXCEPT ![p] = "stream"]
  /\ UNCHANGED <<conversationThreadMap, conversationThreadTimestamps, now,
                 threadsCreated, conv, attempt, threadId,
                 backoff, overlapWith, evictedThread, result,
                 maxRetries, calls, lastErr>>

\* lines 162-172 throwing: the request fails, is not ok, or has no body
RunFails(p, e, j) ==
  /\ UNCHANGED nonGwVars
  /\ pc[p] = "awaitRun"
  /\ Catch(p, e, j)
  /\ UNCHANGED <<conversationThreadMap, conversationThreadTimestamps, now,
                 threadsCreated, conv, threadId, overlapWith, evictedThread,
                 maxRetries, calls>>

\* lines 181-189: a full-messages event; the content it selects, or `cur`
FoldMessages(ms, cur) ==
  LET i == ScanNewest(ms, Len(ms)) IN
  IF i = 0 THEN cur ELSE ContentString(ms[i].content)

\* lines 177-196: the callback applied to one decoded event
FoldContent(ev, cur) ==
  CASE ev.kind = "messages" -> FoldMessages(ev.messages, cur)
    [] ev.kind = "partial" -> IF cur # "" THEN cur ELSE ev.s
    [] ev.kind = "text" -> ev.s
    [] OTHER -> cur

StreamEvent(p, ev, maxEv) ==
  /\ UNCHANGED nonGwVars
  /\ pc[p] = "stream"
  /\ Len(evlog[p]) < maxEv
  /\ evlog' = [evlog EXCEPT ![p] = Append(@, ev)]
  /\ messages' = [messages EXCEPT
       ![p] = IF ev.kind = "messages" THEN ev.messages ELSE @]
  /\ lastContent' = [lastContent EXCEPT ![p] = FoldContent(ev, @)]
  /\ UNCHANGED <<conversationThreadMap, conversationThreadTimestamps, now,
                 threadsCreated, pc, conv, attempt,
                 threadId, backoff, overlapWith, evictedThread, result,
                 maxRetries, calls, lastErr>>

\* reader.read() rejects while the stream is consumed: a TypeError
StreamFails(p, j) ==
  /\ UNCHANGED nonGwVars
  /\ pc[p] = "stream"
  /\ Catch(p, ErrFetchFailed, j)
  /\ UNCHANGED <<conversationThreadMap, conversationThreadTimestamps, now,
                 threadsCreated, conv, threadId, overlapWith, evictedThread,
                 maxRetries, calls>>

\* lines 198-206: the scan after the stream when lastContent is still empty
FinalContent(ms, cur) ==
  IF cur = "" /\ Len(ms) > 0 THEN FoldMessages(ms, cur) ELSE cur

\* lines 198-210: the stream ended ([DONE] when viaDone, else end of body):
\* final scan, sweep of the thread cache, and the result
StreamEnd(p, viaDone) ==
  /\ UNCHANGED nonGwVars
  /\ pc[p] = "stream"
  /\ LET content == FinalContent(messages[p], lastContent[p]) IN
     result' = [result EXCEPT ![p] =
       [content |-> content,
        messages |-> IF Len(messages[p]) > 0 THEN messages[p]
                     ELSE <<Msg("assistant", "", StrContent(content))>>,
        ok |-> TRUE, done |-> viaDone]]
  /\ conversationThreadTimestamps' =
       evictStaleThreadsTs(conversationThreadTimestamps, now, TtlTicks)
  /\ conversationThreadMap' =
       evictStaleThreadsMap(conversationThreadMap, conversationThreadTimestamps,
                            now, TtlTicks)
  /\ evictedThread' = [c \in Convs |->
       IF IsStale(conversationThreadTimestamps[c], now, TtlTicks)
          /\ conversationThreadMap[c] # NoThread
       THEN conversationThreadMap[c] ELSE evictedThread[c]]
  /\ pc' = [pc EXCEPT ![p] = "done"]
  /\ UNCHANGED <<now, threadsCreated, conv, attempt,
                 threadId, messages, lastContent, evlog, backoff,
                 overlapWith,
                 maxRetries, calls, lastErr>>

\* line 220: the backoff wait is over, the loop tries again
Retry(p) ==
  /\ UNCHANGED nonGwVars
  /\ pc[p] = "backoff"
  /\ attempt[p] <= maxRetries
  /\ pc' = [pc EXCEPT ![p] = "ensure"]
  /\ backoff' = [backoff EXCEPT ![p] = 0]
  /\ lastErr' = [lastErr EXCEPT ![p] = NoErr]
  /\ UNCHANGED <<conversationThreadMap, conversationThreadTimestamps, now,
                 threadsCreated, conv, attempt, threadId,
                 messages, lastContent, evlog, overlapWith,
                 evictedThread, result,
                 maxRetries, calls>>

\* the caller has taken the result; its locals are gone
Return(p) ==
  /\ UNCHANGED nonGwVars
  /\ pc[p] = "done"
  /\ pc' = [pc EXCEPT ![p] = "idle"]
  /\ attempt' = [attempt EXCEPT ![p] = 0]
  /\ threadId' = [threadId EXCEPT ![p] = NoThread]
  /\ messages' = [messages EXCEPT ![p] = <<>>]
  /\ lastContent' = [lastContent EXCEPT ![p] = ""]
  /\ evlog' = [evlog EXCEPT ![p] = <<>>]
  /\ backoff' = [backoff EXCEPT ![p] = 0]
  /\ lastErr' = [lastErr EXCEPT ![p] = NoErr]
  /\ result' = [result EXCEPT ![p] = NoResult]
  /\ overlapWith' = [q \in Procs |->
       IF q = p \/ overlapWith[q] = p THEN "none" ELSE overlapWith[q]]
  /\ UNCHANGED <<conversationThreadMap, conversationThreadTimestamps, now,
                 threadsCreated, conv, evictedThread,
                 maxRetries, calls>>

\* Date.now() advances
Tick ==
  /\ UNCHANGED nonGwVars
  /\ now < MaxTime
  /\ now' = now + 1
  /\ UNCHANGED <<conversationThreadMap, conversationThreadTimestamps,
                 threadsCreated, pc, conv, attempt,
                 threadId, messages, lastContent, evlog, backoff,
                 overlapWith, evictedThread, result,
                 maxRetries, calls, lastErr>>

(***************************************************************************)
(* pollCIBAResult and performCIBAAuthorization (ciba-standard)             *)
(***************************************************************************)
Atts == {"a1", "a2"}

\* what the token endpoint can answer to one request: tokens, the three
\* error codes the client knows, another error code, or no usable answer
\* (fetch or response.json() throws)
Responses == {"ok", "pending", "denied", "expired", "other", "network"}

\* how performCIBAAuthorization settles: the value it returns or the error
\* it throws
\*   tokens         the token response
\*   null           access_denied
\*   polling_error  'CIBA polling error: ...'
\*   failed_max     'CIBA polling failed after maximum attempts'
\*   timeout        'CIBA authorization timeout - user did not respond in time'
\*   initiate       'Failed to initiate CIBA: ...'
\*   config         'CIBA configuration missing: ...'
Thrown == {"polling_error", "failed_max", "timeout", "initiate", "config"}

\* mutant of LoopContinues: the loop bound is off by one
LoopContinuesOffByOne(att, max) == att <= max + 1

\* line 161: attempt <= maxAttempts
LoopContinues(att, max) == att <= max

\* mutant of NeedsWait: the first attempt waits too
NeedsWaitAlways(att) == att >= 1

\* line 163: wait before polling, except before the first attempt
NeedsWait(att) == att > 1

\* mutant of Classify: access_denied is treated like any other error code
ClassifyDeniedThrows(r) ==
  CASE r = "ok" -> "return_tokens"
    [] r = "pending" -> "continue"
    [] r = "denied" -> "throw_other"
    [] r = "expired" -> "throw_expired"
    [] r = "other" -> "throw_other"
    [] OTHER -> "throw_network"

\* lines 183-217: what the try block does with one answer
Classify(r) ==
  CASE r = "ok" -> "return_tokens"
    [] r = "pending" -> "continue"
    [] r = "denied" -> "return_null"
    [] r = "expired" -> "throw_expired"
    [] r = "other" -> "throw_other"
    [] OTHER -> "throw_network"

\* mutant of IncludesPollingError: no error is recognised as a polling error
IncludesPollingErrorNever(thrown) == FALSE

\* line 221: error.message.includes('CIBA polling error'); only the error of
\* line 217 carries that text
IncludesPollingError(thrown) == thrown = "throw_other"

\* one attempt more than the whole intervals that fit
CeilPlusOne(e, i) == e \div i + 1

\* Math.ceil(expires_in / interval) for positive integers
Ceil(e, i) == (e + i - 1) \div i

\* lines 161-181: the head of loop iteration `att`: leave the loop with the
\* timeout error, or wait one interval, or (first attempt) issue the request
LoopHead(a, att, max) ==
  /\ pollAttempt' = [pollAttempt EXCEPT ![a] = att]
  /\ IF ~LoopContinues(att, max)
     THEN /\ ppc' = [ppc EXCEPT ![a] = "settled"]
          /\ pollResult' = [pollResult EXCEPT ![a] = "timeout"]
          /\ UNCHANGED requests
     ELSE IF NeedsWait(att)
     THEN /\ ppc' = [ppc EXCEPT ![a] = "wait"]
          /\ UNCHANGED <<pollResult, requests>>
     ELSE /\ ppc' = [ppc EXCEPT ![a] = "fetch"]
          /\ requests' = [requests EXCEPT ![a] = @ + 1]
          /\ UNCHANGED pollResult

\* lines 163-181: the interval has passed, the token request goes out
PollWaitDone(a) ==
  /\ UNCHANGED nonAuthVars
  /\ UNCHANGED uidVars
  /\ ppc[a] = "wait"
  /\ waits' = [waits EXCEPT ![a] = @ + 1]
  /\ waited' = [waited EXCEPT ![a] = @ + interval[a]]
  /\ requests' = [requests EXCEPT ![a] = @ + 1]
  /\ ppc' = [ppc EXCEPT ![a] = "fetch"]
  /\ UNCHANGED <<authorizationState, wpc, wrapper, optAuthReq, optUnauth,
                 interval, maxAttempts, pollAttempt, responses, pollResult,
                 toolInvoked, unauthCalls, outcome>>

\* lines 183-230: the token endpoint answers r to the request in flight
PollResponse(a, r) ==
  /\ UNCHANGED nonAuthVars
  /\ UNCHANGED uidVars
  /\ ppc[a] = "fetch"
  /\ responses' = [responses EXCEPT ![a] = Append(@, r)]
  /\ LET act == Classify(r) IN
     CASE act = "return_tokens" ->
            /\ ppc' = [ppc EXCEPT ![a] = "settled"]
            /\ pollResult' = [pollResult EXCEPT ![a] = "tokens"]
            /\ UNCHANGED <<pollAttempt, requests>>
       [] act = "return_null" ->
            /\ ppc' = [ppc EXCEPT ![a] = "settled"]
            /\ pollResult' = [pollResult EXCEPT ![a] = "null"]
            /\ UNCHANGED <<pollAttempt, requests>>
       [] act = "continue" -> LoopHead(a, pollAttempt[a] + 1, maxAttempts[a])
       [] OTHER ->
            \* the catch block, lines 219-230
            IF IncludesPollingError(act)
            THEN /\ ppc' = [ppc EXCEPT ![a] = "settled"]
                 /\ pollResult' = [pollResult EXCEPT ![a] = "polling_error"]
                 /\ UNCHANGED <<pollAttempt, requests>>
            ELSE IF pollAttempt[a] = maxAttempts[a]
            THEN /\ ppc' = [ppc EXCEPT ![a] = "settled"]
                 /\ pollResult' = [pollResult EXCEPT ![a] = "failed_max"]
                 /\ UNCHANGED <<pollAttempt, requests>>
            ELSE LoopHead(a, pollAttempt[a] + 1, maxAttempts[a])
  /\ UNCHANGED <<authorizationState, wpc, wrapper, optAuthReq, optUnauth,
                 interval, maxAttempts, waits, waited, toolInvoked, unauthCalls,
                 outcome>>

\* a direct call pollCIBAResult(config, authReqId, i, max)
StartPoll(a, i, max) ==
  /\ UNCHANGED nonAuthVars
  /\ UNCHANGED uidVars
  /\ \A b \in Atts : wpc[b] = "idle"
  /\ wrapper' = [wrapper EXCEPT ![a] = "poll"]
  /\ wpc' = [wpc EXCEPT ![a] = "awaitPoll"]
  /\ interval' = [interval EXCEPT ![a] = i]
  /\ maxAttempts' = [maxAttempts EXCEPT ![a] = max]
  /\ LoopHead(a, 1, max)
  /\ UNCHANGED <<authorizationState, optAuthReq, optUnauth, waits, waited,
                 responses, toolInvoked, unauthCalls, outcome>>

\* lines 121-127 and 262-268: the authorize endpoint answers with expires_in
\* e and interval i; polling starts with maxAttempts = ceil(e / i)
InitiateOk(a, e, i) ==
  /\ UNCHANGED nonAuthVars
  /\ UNCHANGED <<userInput, userId>>
  /\ ppc[a] = "initiate"
  /\ expiresIn' = [expiresIn EXCEPT ![a] = e]
  /\ interval' = [interval EXCEPT ![a] = i]
  /\ maxAttempts' = [maxAttempts EXCEPT ![a] = Ceil(e, i)]
  /\ LoopHead(a, 1, Ceil(e, i))
  /\ UNCHANGED <<authorizationState, wpc, wrapper, optAuthReq, optUnauth, waits,
                 waited, responses, toolInvoked, unauthCalls, outcome>>

\* lines 116-131: the authorize request fails or is rejected
InitiateFails(a) ==
  /\ UNCHANGED nonAuthVars
  /\ UNCHANGED uidVars
  /\ ppc[a] = "initiate"
  /\ ppc' = [ppc EXCEPT ![a] = "settled"]
  /\ pollResult' = [pollResult EXCEPT ![a] = "initiate"]
  /\ UNCHANGED <<authorizationState, wpc, wrapper, optAuthReq, optUnauth,
                 interval, maxAttempts, pollAttempt, requests, waits, waited,
                 responses, toolInvoked, unauthCalls, outcome>>

(***************************************************************************)
(* The standards-based coordinator (ciba-langchain)                        *)
(***************************************************************************)
NoMessage == ""
BindingMessages == {"Do you want to buy 2 apples", "Do you want to checkout your cart"}

\* no user id: undefined or the empty string, both falsy
NoUser == ""

\* where a call carries a user id: config.configurable._credentials.user.sub,
\* params.cartData.userId, params.userId
Input(cred, cart, param) == [cred |-> cred, cart |-> cart, param |-> param]
NoInput == Input(NoUser, NoUser, NoUser)
Inputs ==
  { Input(c, k, u) : c \in {NoUser, "u-cred"}, k \in {NoUser, "u-cart"},
                     u \in {NoUser, "u-param"} }

\* mutant of extractUserId: the generic user field is tried before the
\* cart-scoped one
extractUserIdParamFirst(in) ==
  IF in.cred # NoUser THEN in.cred
  ELSE IF in.param # NoUser THEN in.param
  ELSE in.cart

\* lines 40-63: the credential, else params.cartData.userId, else
\* params.userId
extractUserId(in) ==
  IF in.cred # NoUser THEN in.cred
  ELSE IF in.cart # NoUser THEN in.cart
  ELSE in.param

\* line 15 and resetAuthorizationState: { status: 'idle' }
IdleState == [status |-> "idle", message |-> NoMessage]

AuthInit ==
  /\ authorizationState = IdleState
  /\ wpc = [a \in Atts |-> "idle"]
  /\ wrapper = [a \in Atts |-> "none"]
  /\ optAuthReq = [a \in Atts |-> FALSE]
  /\ optUnauth = [a \in Atts |-> FALSE]
  /\ ppc = [a \in Atts |-> "idle"]
  /\ interval = [a \in Atts |-> 0]
  /\ maxAttempts = [a \in Atts |-> 0]
  /\ pollAttempt = [a \in Atts |-> 0]
  /\ requests = [a \in Atts |-> 0]
  /\ waits = [a \in Atts |-> 0]
  /\ waited = [a \in Atts |-> 0]
  /\ responses = [a \in Atts |-> <<>>]
  /\ pollResult = [a \in Atts |-> "none"]
  /\ toolInvoked = [a \in Atts |-> FALSE]
  /\ unauthCalls = [a \in Atts |-> 0]
  /\ outcome = [a \in Atts |-> "none"]
  /\ userInput = [a \in Atts |-> NoInput]
  /\ userId = [a \in Atts |-> NoUser]
  /\ expiresIn = [a \in Atts |-> 0]

\* mutant of Approved: only a missing result counts as not approved
ApprovedUnlessMissing(r) == r \in {"tokens", "null"}

\* lines 144 and 231: if (result)
Approved(r) == r = "tokens"

\* lines 115-131 and 187-208: the wrapped function is called; the user id is
\* resolved from the call's input or not, then the state is replaced by
\* { status: 'requested', message: bindingMessage }
StartWrapper(a, kind, in, msg, onAuthReq, onUnauth) ==
  /\ UNCHANGED nonAuthVars
  /\ wpc[a] = "idle"
  /\ \A b \in Atts : wpc[b] = "idle"
  /\ wrapper' = [wrapper EXCEPT ![a] = kind]
  /\ optAuthReq' = [optAuthReq EXCEPT ![a] = onAuthReq]
  /\ optUnauth' = [optUnauth EXCEPT ![a] = onUnauth]
  /\ userInput' = [userInput EXCEPT ![a] = in]
  /\ userId' = [userId EXCEPT ![a] = extractUserId(in)]
  /\ UNCHANGED expiresIn
  /\ IF extractUserId(in) # NoUser
     THEN /\ authorizationState' = [status |-> "requested", message |-> msg]
          /\ wpc' = [wpc EXCEPT ![a] = "requested"]
          /\ UNCHANGED outcome
     ELSE /\ wpc' = [wpc EXCEPT ![a] = "threw"]
          /\ outcome' = [outcome EXCEPT ![a] = "missing_user"]
          /\ UNCHANGED authorizationState
  /\ UNCHANGED <<ppc, interval, maxAttempts, pollAttempt, requests, waits,
                 waited, responses, pollResult, toolInvoked, unauthCalls>>

\* lines 138-142 and 211-227: status = 'pending', then
\* performCIBAAuthorizationWithEnv is called: getCIBAConfig throws (configOk
\* false) or the authorize request goes out
SetPending(a, configOk) ==
  /\ UNCHANGED nonAuthVars
  /\ UNCHANGED uidVars
  /\ wpc[a] = "requested"
  /\ authorizationState' = [authorizationState EXCEPT !.status = "pending"]
  /\ IF configOk
     THEN /\ ppc' = [ppc EXCEPT ![a] = "initiate"]
          /\ UNCHANGED pollResult
     ELSE /\ ppc' = [ppc EXCEPT ![a] = "settled"]
          /\ pollResult' = [pollResult EXCEPT ![a] = "config"]
  /\ wpc' = [wpc EXCEPT ![a] =
       IF wrapper[a] = "confirm" /\ optAuthReq[a] THEN "onAuthReq" ELSE "awaitPoll"]
  /\ UNCHANGED <<wrapper, optAuthReq, optUnauth, interval, maxAttempts,
                 pollAttempt, requests, waits, waited, responses, toolInvoked,
                 unauthCalls, outcome>>

\* mutant of WrapperCatch: the catch block rethrows without touching the state
WrapperCatchKeepsStatus(a, reason) ==
  /\ UNCHANGED authorizationState
  /\ outcome' = [outcome EXCEPT ![a] = reason]
  /\ IF wrapper[a] = "confirm" /\ optUnauth[a]
     THEN /\ wpc' = [wpc EXCEPT ![a] = "onUnauthCatch"]
          /\ unauthCalls' = [unauthCalls EXCEPT ![a] = @ + 1]
     ELSE /\ wpc' = [wpc EXCEPT ![a] = "threw"]
          /\ UNCHANGED unauthCalls

\* the catch blocks, lines 159-168 and 253-263: status = 'denied', then the
\* error is thrown, or options.onUnauthorized is awaited first
WrapperCatch(a, reason) ==
  /\ authorizationState' = [authorizationState EXCEPT !.status = "denied"]
  /\ outcome' = [outcome EXCEPT ![a] = reason]
  /\ IF wrapper[a] = "confirm" /\ optUnauth[a]
     THEN /\ wpc' = [wpc EXCEPT ![a] = "onUnauthCatch"]
          /\ unauthCalls' = [unauthCalls EXCEPT ![a] = @ + 1]
     ELSE /\ wpc' = [wpc EXCEPT ![a] = "threw"]
          /\ UNCHANGED unauthCalls

\* lines 226-229: options.onAuthorizationRequest returns
OnAuthorizationRequestReturns(a) ==
  /\ UNCHANGED nonAuthVars
  /\ UNCHANGED uidVars
  /\ wpc[a] = "onAuthReq"
  /\ wpc' = [wpc EXCEPT ![a] = "awaitPoll"]
  /\ UNCHANGED <<authorizationState, wrapper, optAuthReq, optUnauth, ppc,
                 interval, maxAttempts, pollAttempt, requests, waits, waited,
                 responses, pollResult, toolInvoked, unauthCalls, outcome>>

\* line 226: options.onAuthorizationRequest throws
OnAuthorizationRequestThrows(a) ==
  /\ UNCHANGED nonAuthVars
  /\ UNCHANGED uidVars
  /\ wpc[a] = "onAuthReq"
  /\ WrapperCatch(a, "callback")
  /\ UNCHANGED <<wrapper, optAuthReq, optUnauth, ppc, interval, maxAttempts,
                 pollAttempt, requests, waits, waited, responses, pollResult,
                 toolInvoked>>

\* lines 142-158 and 229-252: the awaited authorization has settled
PollSettled(a) ==
  /\ UNCHANGED nonAuthVars
  /\ UNCHANGED uidVars
  /\ wrapper[a] \in {"ciba", "confirm"}
  /\ wpc[a] = "awaitPoll"
  /\ ppc[a] = "settled"
  /\ LET r == pollResult[a] IN
     IF r \in Thrown
     THEN /\ WrapperCatch(a, r)
          /\ UNCHANGED toolInvoked
     ELSE IF Approved(r)
     THEN \* status = 'approved'; toolFunction(params, config) is called
          /\ authorizationState' = [authorizationState EXCEPT !.status = "approved"]
          /\ toolInvoked' = [toolInvoked EXCEPT ![a] = TRUE]
          /\ wpc' = [wpc EXCEPT ![a] = "tool"]
          /\ UNCHANGED <<unauthCalls, outcome>>
     ELSE IF wrapper[a] = "confirm" /\ optUnauth[a]
     THEN \* status = 'denied'; await options.onUnauthorized(error)
          /\ authorizationState' = [authorizationState EXCEPT !.status = "denied"]
          /\ outcome' = [outcome EXCEPT ![a] = "denied"]
          /\ wpc' = [wpc EXCEPT ![a] = "onUnauthTry"]
          /\ unauthCalls' = [unauthCalls EXCEPT ![a] = @ + 1]
          /\ UNCHANGED toolInvoked
     ELSE \* status = 'denied'; the error thrown is caught by the catch block
          /\ WrapperCatch(a, "denied")
          /\ UNCHANGED toolInvoked
  /\ UNCHANGED <<wrapper, optAuthReq, optUnauth, ppc, interval, maxAttempts,
                 pollAttempt, requests, waits, waited, responses, pollResult>>

\* lines 247-248: options.onUnauthorized, called in the try block, returns or
\* throws; either way an error is thrown inside the try block and caught
OnUnauthorizedInTrySettles(a) ==
  /\ UNCHANGED nonAuthVars
  /\ UNCHANGED uidVars
  /\ wpc[a] = "onUnauthTry"
  /\ WrapperCatch(a, outcome[a])
  /\ UNCHANGED <<wrapper, optAuthReq, optUnauth, ppc, interval, maxAttempts,
                 pollAttempt, requests, waits, waited, responses, pollResult,
                 toolInvoked>>

\* lines 258-259: options.onUnauthorized, called in the catch block, returns
\* or throws; the wrapper throws
OnUnauthorizedInCatchSettles(a) ==
  /\ UNCHANGED nonAuthVars
  /\ UNCHANGED uidVars
  /\ wpc[a] = "onUnauthCatch"
  /\ wpc' = [wpc EXCEPT ![a] = "threw"]
  /\ UNCHANGED <<authorizationState, wrapper, optAuthReq, optUnauth, ppc,
                 interval, maxAttempts, pollAttempt, requests, waits, waited,
                 responses, pollResult, toolInvoked, unauthCalls, outcome>>

\* lines 150 and 237: the tool function returns
ToolReturns(a) ==
  /\ UNCHANGED nonAuthVars
  /\ UNCHANGED uidVars
  /\ wpc[a] = "tool"
  /\ wpc' = [wpc EXCEPT ![a] = "returned"]
  /\ outcome' = [outcome EXCEPT ![a] = "ok"]
  /\ UNCHANGED <<authorizationState, wrapper, optAuthReq, optUnauth, ppc,
                 interval, maxAttempts, pollAttempt, requests, waits, waited,
                 responses, pollResult, toolInvoked, unauthCalls>>

\* lines 150 and 237: the tool function throws, inside the try block
ToolThrows(a) ==
  /\ UNCHANGED nonAuthVars
  /\ UNCHANGED uidVars
  /\ wpc[a] = "tool"
  /\ WrapperCatch(a, "tool")
  /\ UNCHANGED <<wrapper, optAuthReq, optUnauth, ppc, interval, maxAttempts,
                 pollAttempt, requests, waits, waited, responses, pollResult,
                 toolInvoked>>

\* the caller has the wrapper's (or the direct poll's) result; the locals of
\* the call are gone
Finish(a) ==
  /\ UNCHANGED nonAuthVars
  /\ \/ wpc[a] \in {"returned", "threw"}
     \/ wrapper[a] = "poll" /\ ppc[a] = "settled"
  /\ wpc' = [wpc EXCEPT ![a] = "idle"]
  /\ wrapper' = [wrapper EXCEPT ![a] = "none"]
  /\ optAuthReq' = [optAuthReq EXCEPT ![a] = FALSE]
  /\ optUnauth' = [optUnauth EXCEPT ![a] = FALSE]
  /\ ppc' = [ppc EXCEPT ![a] = "idle"]
  /\ interval' = [interval EXCEPT ![a] = 0]
  /\ maxAttempts' = [maxAttempts EXCEPT ![a] = 0]
  /\ pollAttempt' = [pollAttempt EXCEPT ![a] = 0]
  /\ requests' = [requests EXCEPT ![a] = 0]
  /\ waits' = [waits EXCEPT ![a] = 0]
  /\ waited' = [waited EXCEPT ![a] = 0]
  /\ responses' = [responses EXCEPT ![a] = <<>>]
  /\ pollResult' = [pollResult EXCEPT ![a] = "none"]
  /\ toolInvoked' = [toolInvoked EXCEPT ![a] = FALSE]
  /\ unauthCalls' = [unauthCalls EXCEPT ![a] = 0]
  /\ outcome' = [outcome EXCEPT ![a] = "none"]
  /\ userInput' = [userInput EXCEPT ![a] = NoInput]
  /\ userId' = [userId EXCEPT ![a] = NoUser]
  /\ expiresIn' = [expiresIn EXCEPT ![a] = 0]
  /\ UNCHANGED authorizationState

\* lines 32-35: resetAuthorizationState(), called between attempts
resetAuthorizationState ==
  /\ UNCHANGED nonAuthVars
  /\ UNCHANGED uidVars
  /\ \A b \in Atts : wpc[b] = "idle"
  /\ authorizationState' = IdleState
  /\ UNCHANGED <<wpc, wrapper, optAuthReq, optUnauth, ppc, interval,
                 maxAttempts, pollAttempt, requests, waits, waited, responses,
                 pollResult, toolInvoked, unauthCalls, outcome>>

(***************************************************************************)
(* The chat-stream reclassifier (chat-stream/route.ts)                     *)
(*                                                                         *)
(* A text is a sequence of tokens: the punctuation characters of JSON, the *)
(* space, the line break, and words.  JSON values are the objects built   *)
(* from the fields type, action, confidence, content, messages, progress  *)
(* and planningRecommendation.                                             *)
(***************************************************************************)
Q == "\""
BS == "\\"
SP == " "
NL == "\n"
Check == "<check-mark>"

\* an optional string-valued field
Absent == [has |-> FALSE, s |-> <<>>]
Str(s) == [has |-> TRUE, s |-> s]

\* an optional planningRecommendation: { action, confidence }
NoPlan == [has |-> FALSE, action |-> <<>>, confidence |-> <<>>]
Plan(a, c) == [has |-> TRUE, action |-> a, confidence |-> c]

\* an optional messages array; each element is an object { content: string }
NoMessages == [has |-> FALSE, list |-> <<>>]
Messages(l) == [has |-> TRUE, list |-> l]

Obj(type, action, confidence, content, msgs, ephemeral, plan) ==
  [type |-> type, action |-> action, confidence |-> confidence,
   content |-> content, messages |-> msgs, ephemeral |-> ephemeral,
   planningRecommendation |-> plan]

EmptyObj == Obj(Absent, Absent, Absent, Absent, NoMessages, FALSE, NoPlan)

\* number of characters of a token
CharLen(tok) ==
  CASE tok = Check -> 1
    [] tok = "LongProcessingReport" -> 250
    [] tok \in {Q, BS, SP, NL} -> 1
    [] OTHER -> Len(tok)

RECURSIVE TextLen(_)
TextLen(t) == IF t = <<>> THEN 0 ELSE CharLen(Head(t)) + TextLen(Tail(t))

\* String.prototype.trim
RECURSIVE TrimLeft(_)
TrimLeft(t) ==
  IF t # <<>> /\ Head(t) \in {SP, NL} THEN TrimLeft(Tail(t)) ELSE t

RECURSIVE TrimRight(_)
TrimRight(t) ==
  IF t # <<>> /\ t[Len(t)] \in {SP, NL}
  THEN TrimRight(SubSeq(t, 1, Len(t) - 1)) ELSE t

Trim(t) == TrimRight(TrimLeft(t))

\* the escaping JSON.stringify applies inside a string
RECURSIVE Esc(_)
Esc(t) ==
  IF t = <<>> THEN <<>>
  ELSE (IF Head(t) \in {Q, BS} THEN <<BS, Head(t)>>
        ELSE IF Head(t) = NL THEN <<BS, "n">>
        ELSE <<Head(t)>>) \o Esc(Tail(t))

\* "key":"escaped string"
KeyStr(k, s) == <<Q, k, Q, ":", Q>> \o Esc(s) \o <<Q>>
\* "key":number
KeyNum(k, n) == <<Q, k, Q, ":">> \o n

\* the parts joined by commas
RECURSIVE Join(_)
Join(parts) ==
  IF parts = <<>> THEN <<>>
  ELSE IF Len(parts) = 1 THEN parts[1]
  ELSE parts[1] \o <<",">> \o Join(Tail(parts))

RECURSIVE MessageParts(_)
MessageParts(l) ==
  IF l = <<>> THEN <<>>
  ELSE << <<"{">> \o KeyStr("content", Head(l)) \o <<"}">> >> \o MessageParts(Tail(l))

\* JSON.stringify(obj): the present fields, in insertion order
Stringify(o) ==
  LET f1 == IF o.type.has THEN << KeyStr("type", o.type.s) >> ELSE <<>>
      f2 == IF o.action.has THEN << KeyStr("action", o.action.s) >> ELSE <<>>
      f3 == IF o.confidence.has THEN << KeyNum("confidence", o.confidence.s) >> ELSE <<>>
      f4 == IF o.content.has THEN << KeyStr("content", o.content.s) >> ELSE <<>>
      f5 == IF o.messages.has
            THEN << <<Q, "messages", Q, ":", "[">>
                    \o Join(MessageParts(o.messages.list)) \o <<"]">> >>
            ELSE <<>>
      f6 == IF o.ephemeral
            THEN << <<Q, "progress", Q, ":", "{", Q, "ephemeral", Q, ":", "true", "}">> >>
            ELSE <<>>
      f7 == IF o.planningRecommendation.has
            THEN << <<Q, "planningRecommendation", Q, ":", "{">>
                    \o KeyStr("action", o.planningRecommendation.action) \o <<",">>
                    \o KeyNum("confidence", o.planningRecommendation.confidence)
                    \o <<"}">> >>
            ELSE <<>>
  IN <<"{">> \o Join(f1 \o f2 \o f3 \o f4 \o f5 \o f6 \o f7) \o <<"}">>

\* the texts agents produce
TStatus == <<Check, SP, "Processing", SP, "your", SP, "request">>
TPlain == <<"Here", SP, "are", SP, "your", SP, "apples">>
TLong == <<"LongProcessingReport">>
TCount == <<"2", SP, "apples", SP, "left">>
TPlanStr ==
  <<"{", Q, "action", Q, ":", Q, "delegate", Q, ",", Q, "confidence", Q, ":", "0.9", "}">>
\* a plan-like text that is not valid JSON
TBroken == <<"{", Q, "action", Q, ":", Q, "delegate", Q, ",", "}">>
TPlanHyphen ==
  <<"{", Q, "action", Q, ":", Q, "add-to-cart", Q, ",", Q, "confidence", Q, ":", "0.9", "}">>

\* the plan-like payload { action: 'delegate', confidence: 0.9 }
PlanObj ==
  Obj(Absent, Str(<<"delegate">>), Str(<<"0.9">>), Absent, NoMessages, FALSE, NoPlan)

ContentObj(t) == Obj(Absent, Absent, Absent, Str(t), NoMessages, FALSE, NoPlan)
MessagesObj(l) == Obj(Absent, Absent, Absent, Absent, Messages(l), FALSE, NoPlan)

\* the JSON values of the model
ObjPool ==
  { PlanObj,
    ContentObj(TPlanStr),
    MessagesObj(<<TPlanStr>>),
    ContentObj(TPlanHyphen),
    Obj(Absent, Absent, Absent, Absent, NoMessages, FALSE,
        Plan(<<"delegate">>, <<"0.9">>)),
    ContentObj(TStatus),
    ContentObj(TPlain),
    ContentObj(TLong),
    ContentObj(TCount),
    ContentObj(<<>>),
    Obj(Absent, Absent, Absent, Str(TPlain), NoMessages, TRUE, NoPlan),
    Obj(Str(<<"progress">>), Absent, Absent, Str(TPlain), NoMessages, FALSE, NoPlan),
    MessagesObj(<<TPlain, TStatus>>),
    EmptyObj }

\* JSON.parse(l) over the values of the model: the value whose JSON text is
\* l, or a SyntaxError
Parse(l) ==
  IF \E o \in ObjPool : Stringify(o) = l
  THEN [ok |-> TRUE, v |-> CHOOSE o \in ObjPool : Stringify(o) = l]
  ELSE [ok |-> FALSE, v |-> EmptyObj]

\* [a-z_]+ with the i flag
IsAlphaWord(tok) ==
  tok \in {"delegate", "action", "apples", "are", "your", "Here", "left",
           "request", "Processing", "content", "confidence", "true",
           "progress", "ephemeral", "messages", "type", "n",
           "planningRecommendation", "LongProcessingReport"}

\* \s*
RECURSIVE SkipSpaces(_, _)
SkipSpaces(t, i) ==
  IF i <= Len(t) /\ t[i] \in {SP, NL} THEN SkipSpaces(t, i + 1) ELSE i

\* /"action"\s*:\s*"[a-z_]+"/i matches at position i
ActionPatternAt(t, i) ==
  /\ i + 2 <= Len(t)
  /\ t[i] = Q /\ t[i + 1] = "action" /\ t[i + 2] = Q
  /\ LET j == SkipSpaces(t, i + 3) IN
       /\ j <= Len(t) /\ t[j] = ":"
       /\ LET k == SkipSpaces(t, j + 1) IN
            /\ k + 2 <= Len(t)
            /\ t[k] = Q /\ IsAlphaWord(t[k + 1]) /\ t[k + 2] = Q

\* isPlanLike(value) for a string, lines 82-85
isPlanLikeStr(s) ==
  LET t == Trim(s) IN
    /\ t # <<>> /\ t[1] = "{"
    /\ \E i \in 1..Len(t) : ActionPatternAt(t, i)

\* isPlanLike(value) for an object, lines 86-89
isPlanLikeObj(o) ==
  \/ o.action.has /\ o.confidence.has
  \/ o.planningRecommendation.has

\* [^"]* from position k: the index after the run
RECURSIVE RunEnd(_, _)
RunEnd(t, k) == IF k <= Len(t) /\ t[k] # Q THEN RunEnd(t, k + 1) ELSE k

\* /"content"\s*:\s*"([^"]{1,2000})"/ matches at position i
ContentPatternAt(t, i) ==
  /\ i + 4 <= Len(t)
  /\ SubSeq(t, i, i + 4) = <<Q, "content", Q, ":", Q>>
  /\ LET e == RunEnd(t, i + 5) IN
       /\ e <= Len(t) /\ e > i + 5
       /\ TextLen(SubSeq(t, i + 5, e - 1)) <= 2000

\* json.match(...): group 1 of the leftmost match
ContentMatch(t) ==
  IF \E i \in 1..Len(t) : ContentPatternAt(t, i)
  THEN LET i == CHOOSE x \in 1..Len(t) :
                  ContentPatternAt(t, x) /\ \A y \in 1..(x - 1) : ~ContentPatternAt(t, y)
       IN Str(SubSeq(t, i + 5, RunEnd(t, i + 5) - 1))
  ELSE Absent

\* the texts of a list that are not plan-like strings, in order
RECURSIVE NotPlanLike(_)
NotPlanLike(l) ==
  IF l = <<>> THEN <<>>
  ELSE (IF isPlanLikeStr(Head(l)) THEN <<>> ELSE <<Head(l)>>) \o NotPlanLike(Tail(l))

\* extractReadableTexts(obj) for an object, lines 221-258
extractReadableTexts(o) ==
  LET fromContent == IF o.content.has THEN NotPlanLike(<<o.content.s>>) ELSE <<>>
      fromMessages == IF o.messages.has THEN NotPlanLike(o.messages.list) ELSE <<>>
      out1 == fromContent \o fromMessages
      m == ContentMatch(Stringify(o))
      out2 == IF out1 = <<>> /\ m.has THEN NotPlanLike(<<m.s>>) ELSE out1
  IN IF out2 = <<>> /\ ~isPlanLikeObj(o) THEN <<Stringify(o)>> ELSE out2

\* the tokens whose lower-case form includes one of the keywords of line 272
KeywordTokens == {"Processing", "LongProcessingReport"}
\* the tokens holding a character with the Emoji property (digits have it)
EmojiTokens == {Check, "2", "0.9"}

\* t.split(/\s+/).length of a trimmed text
WordCount(t) == 1 + Cardinality({ i \in 1..Len(t) : t[i] \in {SP, NL} })

\* isStatusLike(text), lines 266-282
isStatusLike(text) ==
  LET t == Trim(text) IN
    /\ t # <<>>
    /\ TextLen(t) <= 200
    /\ \/ \E i \in 1..Len(t) : t[i] \in KeywordTokens
       \/ (\E i \in 1..Len(t) : t[i] \in EmojiTokens) /\ WordCount(t) <= 6

\* isEphemeralChunk(obj), lines 285-287
isEphemeralChunk(o) == o.ephemeral

\* an enqueued NDJSON event
Event(type, text, obj) == [type |-> type, text |-> text, obj |-> obj]

\* lines 325-348 and 391-411: one extracted text becomes a status or a
\* message event
EmitText(t, eph) ==
  IF isStatusLike(t) \/ eph THEN Event("status", t, EmptyObj)
  ELSE Event("message", t, EmptyObj)

RECURSIVE EmitTexts(_, _)
EmitTexts(l, eph) ==
  IF l = <<>> THEN <<>> ELSE <<EmitText(Head(l), eph)>> \o EmitTexts(Tail(l), eph)

RECURSIVE EmitMessages(_)
EmitMessages(l) ==
  IF l = <<>> THEN <<>>
  ELSE <<Event("message", Head(l), EmptyObj)>> \o EmitMessages(Tail(l))

\* l.indexOf('{') and l.lastIndexOf('}'), 0 when absent
FirstBrace(l) ==
  IF \E i \in 1..Len(l) : l[i] = "{"
  THEN CHOOSE i \in 1..Len(l) : l[i] = "{" /\ \A j \in 1..(i - 1) : l[j] # "{"
  ELSE 0
LastBrace(l) ==
  IF \E i \in 1..Len(l) : l[i] = "}"
  THEN CHOOSE i \in 1..Len(l) : l[i] = "}" /\ \A j \in (i + 1)..Len(l) : l[j] # "}"
  ELSE 0

\* lines 372-379: the line as a status or raw event, unless plan-like
RawFallback(l) ==
  IF isPlanLikeStr(l) THEN <<>>
  ELSE IF isStatusLike(l) THEN <<Event("status", l, EmptyObj)>>
  ELSE <<Event("raw", l, EmptyObj)>>

\* lines 350-380: the line is not JSON; an embedded JSON value is tried
EmbeddedJson(l) ==
  LET first == FirstBrace(l)
      last == LastBrace(l) IN
  IF first > 0 /\ last > first
  THEN LET sub == Parse(SubSeq(l, first, last)) IN
       IF ~sub.ok THEN RawFallback(l)
       ELSE IF isPlanLikeObj(sub.v) THEN <<Event("meta", <<>>, sub.v)>>
       ELSE EmitMessages(extractReadableTexts(sub.v))
  ELSE RawFallback(l)

\* lines 306-381: one line of a textual chunk
ProcessLine(l) ==
  LET parsed == Parse(l) IN
  IF ~parsed.ok THEN EmbeddedJson(l)
  ELSE IF parsed.v.type.has THEN <<Event(parsed.v.type.s[1], <<>>, parsed.v)>>
  ELSE IF isPlanLikeObj(parsed.v) THEN <<Event("meta", <<>>, parsed.v)>>
  ELSE EmitTexts(extractReadableTexts(parsed.v), isEphemeralChunk(parsed.v))

\* String(text).split(/\r?\n/).filter(Boolean)
RECURSIVE SplitLines(_, _)
SplitLines(t, cur) ==
  IF t = <<>> THEN (IF cur = <<>> THEN <<>> ELSE <<cur>>)
  ELSE IF Head(t) = NL
  THEN (IF cur = <<>> THEN <<>> ELSE <<cur>>) \o SplitLines(Tail(t), <<>>)
  ELSE SplitLines(Tail(t), Append(cur, Head(t)))

RECURSIVE ProcessLines(_)
ProcessLines(ls) ==
  IF ls = <<>> THEN <<>> ELSE ProcessLine(Head(ls)) \o ProcessLines(Tail(ls))

\* a chunk of the agent stream: an object or a text
ObjectChunk(o) == [kind |-> "object", obj |-> o, text |-> <<>>]
TextChunk(t) == [kind |-> "string", obj |-> EmptyObj, text |-> t]
NoChunk == [kind |-> "none", obj |-> EmptyObj, text |-> <<>>]

\* extractMetadata(chunk, prev), lines 97-205, for the values of the model:
\* only the planner recommendation is carried by them
extractMetadata(chunk) ==
  IF chunk.kind = "object" /\ chunk.obj.planningRecommendation.has
  THEN <<Event("metadata", <<"planner_recommendation">>, chunk.obj)>>
  ELSE <<>>

\* lines 291-414: one iteration of the loop over the agent stream
ProcessChunk(chunk) ==
  extractMetadata(chunk) \o
    (IF chunk.kind = "string" THEN ProcessLines(SplitLines(chunk.text, <<>>))
     ELSE EmitTexts(extractReadableTexts(chunk.obj), isEphemeralChunk(chunk.obj)))

\* a value as a JSON line, and embedded in a line of text
JsonLineChunk(o) == TextChunk(Stringify(o))
EmbeddedChunk(o) == TextChunk(<<"USER_LATEST:", SP>> \o Stringify(o))

\* the chunks agents deliver: every value as an object, as a JSON line and
\* embedded in a line of text; plain lines; two lines in one chunk
Chunks ==
  { ObjectChunk(o) : o \in ObjPool }
    \cup { JsonLineChunk(o) : o \in ObjPool }
    \cup { EmbeddedChunk(o) : o \in ObjPool }
    \cup { TextChunk(t) : t \in {TStatus, TPlain, TCount, TLong, TBroken,
                                  TPlain \o <<NL>> \o TStatus,
                                  <<SP>> \o TPlanStr \o <<SP, "x">>} }

StreamInit ==
  /\ controller = "open"
  /\ chunksRead = 0
  /\ lastChunk = NoChunk
  /\ lastEmitted = <<>>

\* lines 290-423: the agent stream yields a chunk
ReadChunk(chunk) ==
  /\ UNCHANGED nonRcVars
  /\ controller = "open"
  /\ chunksRead < MaxChunks
  /\ chunksRead' = chunksRead + 1
  /\ lastChunk' = chunk
  /\ lastEmitted' = ProcessChunk(chunk)
  /\ UNCHANGED controller

\* lines 424-425: the agent stream throws; an error event is enqueued
StreamThrows ==
  /\ UNCHANGED nonRcVars
  /\ controller = "open"
  /\ lastChunk' = NoChunk
  /\ lastEmitted' = <<Event("error", <<>>, EmptyObj)>>
  /\ controller' = "closed"
  /\ UNCHANGED chunksRead

\* line 426: the agent stream is exhausted; controller.close()
StreamCloses ==
  /\ UNCHANGED nonRcVars
  /\ controller = "open"
  /\ lastChunk' = NoChunk
  /\ lastEmitted' = <<>>
  /\ controller' = "closed"
  /\ UNCHANGED chunksRead

(***************************************************************************)
(* The workflow-context tracking of the reclassifier                       *)
(* (chat-stream/route.ts lines 97-205 and 289-300)                         *)
(*                                                                         *)
(* A chunk is described by the fields extractMetadata reads.               *)
(***************************************************************************)
\* no context: null, undefined and the empty string are all falsy
NoContext == ""
Contexts == {"browse", "checkout"}

\* isObject: typeof chunk === 'object'; rec: plannerRecommendation or
\* planningRecommendation is present; next: chunk.next; lastAgent: the agent
\* of the last message ("" when there is no message or no attribution);
\* supervisor: chunk.supervisor || chunk.agent === 'supervisor'
MetaChunks ==
  [ isObject : BOOLEAN, rec : BOOLEAN, next : {"", "__end__", "catalog"},
    lastAgent : {"", "user", "supervisor", "catalog"}, supervisor : BOOLEAN,
    workflowContext : Contexts \cup {NoContext} ]

NoMetaChunk ==
  [ isObject |-> FALSE, rec |-> FALSE, next |-> "", lastAgent |-> "",
    supervisor |-> FALSE, workflowContext |-> NoContext ]

NoMetadata == "none"

Routes(chunk) == chunk.next # "" /\ chunk.next # "__end__"

\* extractMetadata(chunk, prevContext) with its context parameter:
\* the metadata type and the new context
extractMetadataWithContext(chunk, prevContext) ==
  IF ~chunk.isObject THEN [metadata |-> NoMetadata, newContext |-> prevContext]
  ELSE IF chunk.rec
    THEN [metadata |-> "planner_recommendation", newContext |-> prevContext]
  ELSE IF Routes(chunk) /\ chunk.lastAgent \notin {"", "supervisor", "user", "planner"}
    THEN [metadata |-> "agent_routing_decision", newContext |-> prevContext]
  ELSE IF Routes(chunk) /\ chunk.supervisor
    THEN [metadata |-> "supervisor_decision", newContext |-> prevContext]
  ELSE IF chunk.lastAgent \notin {"", "user"}
    THEN [metadata |-> "agent_transition", newContext |-> prevContext]
  ELSE IF chunk.workflowContext # NoContext /\ chunk.workflowContext # prevContext
    THEN [metadata |-> "workflow_context", newContext |-> chunk.workflowContext]
  ELSE [metadata |-> NoMetadata, newContext |-> prevContext]

\* the chunk carries a workflowContext
CarriesContext(chunk) == chunk.isObject /\ chunk.workflowContext # NoContext

ContextInit ==
  /\ previousWorkflowContext = NoContext
  /\ lastSeenContext = NoContext
  /\ seenBefore = NoContext
  /\ ctxChunk = NoMetaChunk
  /\ ctxMetadata = NoMetadata
  /\ ctxRead = 0

\* lines 291-300: the loop takes a chunk, enqueues its metadata event and
\* stores the new context
ReadMetaChunk(chunk) ==
  /\ UNCHANGED nonCtxVars
  /\ ctxRead < MaxChunks
  /\ ctxRead' = ctxRead + 1
  /\ ctxChunk' = chunk
  /\ LET r == extractMetadataWithContext(chunk, previousWorkflowContext) IN
       /\ ctxMetadata' = r.metadata
       /\ previousWorkflowContext' = r.newContext
  /\ seenBefore' = lastSeenContext
  /\ lastSeenContext' = IF CarriesContext(chunk) THEN chunk.workflowContext
                        ELSE lastSeenContext

\* a new request starts a new stream (line 76: previousWorkflowContext is
\* declared inside the stream's start callback and starts as null)
NewStream ==
  /\ UNCHANGED nonCtxVars
  /\ ctxRead > 0
  /\ previousWorkflowContext' = NoContext
  /\ lastSeenContext' = NoContext
  /\ seenBefore' = NoContext
  /\ ctxChunk' = NoMetaChunk
  /\ ctxMetadata' = NoMetadata
  /\ ctxRead' = 0

(***************************************************************************)
(* The Auth0 coordinator (auth0-ai-langchain.ts), the provider selector    *)
(* (ciba-provider) and the status query (auth-status/route.ts)             *)
(*                                                                         *)
(* The Auth0 SDK drives the callbacks of withAsyncAuthorization in the     *)
(* order bindingMessage, onAuthorizationRequest (which awaits the poll),   *)
(* then the tool when the poll gave credentials and onUnauthorized         *)
(* otherwise.                                                              *)
(***************************************************************************)
\* the settings of IDENTITY_PROVIDER: absent, empty, or a provider name
IdentityProviders == {"unset", "", "auth0", "Auth0", "okta"}

\* String.prototype.toLowerCase on the provider names
LowerProvider(p) == IF p = "Auth0" THEN "auth0" ELSE p

\* getCIBAProvider(), ciba-provider lines 212-222
getCIBAProvider(p) ==
  IF p = "unset" \/ LowerProvider(p) = "auth0" \/ LowerProvider(p) = ""
  THEN "auth0" ELSE "standard"

NoServed == [status |-> "none", message |-> NoMessage]

Auth0Init ==
  /\ auth0AuthorizationState = IdleState
  /\ apc = [a \in Atts |-> "idle"]
  /\ amsg = [a \in Atts |-> NoMessage]
  /\ apoll = [a \in Atts |-> "none"]
  /\ served = NoServed

\* auth0-ai-langchain.ts lines 64-110: bindingMessage builds the message and
\* replaces the state by { status: 'requested', message }
bindingMessage(a, msg) ==
  /\ UNCHANGED nonA0Vars
  /\ apc[a] = "idle"
  /\ auth0AuthorizationState' = [status |-> "requested", message |-> msg]
  /\ amsg' = [amsg EXCEPT ![a] = msg]
  /\ apc' = [apc EXCEPT ![a] = "requested"]
  /\ UNCHANGED <<identityProvider, apoll, served>>

\* lines 119-131: onAuthorizationRequest sets status = 'pending' and awaits
\* the poll
onAuthorizationRequest(a) ==
  /\ UNCHANGED nonA0Vars
  /\ apc[a] = "requested"
  /\ auth0AuthorizationState' = [auth0AuthorizationState EXCEPT !.status = "pending"]
  /\ apc' = [apc EXCEPT ![a] = "polling"]
  /\ UNCHANGED <<identityProvider, amsg, apoll, served>>

\* lines 131-147: the poll settles with r: credentials, nothing, or an error;
\* status = 'approved' or 'denied'
PollPromiseSettles(a, r) ==
  /\ UNCHANGED nonA0Vars
  /\ apc[a] = "polling"
  /\ apoll' = [apoll EXCEPT ![a] = r]
  /\ auth0AuthorizationState' = [auth0AuthorizationState EXCEPT
       !.status = IF r = "tokens" THEN "approved" ELSE "denied"]
  /\ apc' = [apc EXCEPT ![a] = IF r = "tokens" THEN "tool" ELSE "unauthorized"]
  /\ UNCHANGED <<identityProvider, amsg, served>>

\* lines 149-171: onUnauthorized replaces the state by
\* { status: 'denied', message }
onUnauthorized(a, msg) ==
  /\ UNCHANGED nonA0Vars
  /\ apc[a] = "unauthorized"
  /\ auth0AuthorizationState' = [status |-> "denied", message |-> msg]
  /\ apc' = [apc EXCEPT ![a] = "done"]
  /\ UNCHANGED <<identityProvider, amsg, apoll, served>>

\* the wrapped tool runs with the credentials and completes (returns or
\* throws); no callback of the coordinator is involved
Auth0ToolCompletes(a) ==
  /\ UNCHANGED nonA0Vars
  /\ apc[a] = "tool"
  /\ apc' = [apc EXCEPT ![a] = "done"]
  /\ UNCHANGED <<identityProvider, auth0AuthorizationState, amsg, apoll, served>>

\* the caller has the result of the wrapped tool call
Auth0Finish(a) ==
  /\ UNCHANGED nonA0Vars
  /\ apc[a] = "done"
  /\ apc' = [apc EXCEPT ![a] = "idle"]
  /\ amsg' = [amsg EXCEPT ![a] = NoMessage]
  /\ apoll' = [apoll EXCEPT ![a] = "none"]
  /\ UNCHANGED <<identityProvider, auth0AuthorizationState, served>>

\* chat/route.ts lines 56-57: a chat request starts and calls
\* resetAuthorizationState() of auth0-ai-langchain.ts (lines 32-35)
ChatRequestResets ==
  /\ UNCHANGED nonA0Vars
  /\ auth0AuthorizationState' = IdleState
  /\ UNCHANGED <<identityProvider, apc, amsg, apoll, served>>

\* auth-status/route.ts lines 5-37: GET reads getAuthorizationState() of
\* auth0-ai-langchain.ts (lines 17-30), which first promotes requested to
\* approved when the shop tool reports approved (shopApproved), and answers
\* with its status and message
GetAuthStatus(shopApproved) ==
  /\ UNCHANGED nonA0Vars
  /\ served = NoServed
  /\ LET st == IF shopApproved /\ auth0AuthorizationState.status = "requested"
               THEN [auth0AuthorizationState EXCEPT !.status = "approved"]
               ELSE auth0AuthorizationState IN
     /\ auth0AuthorizationState' = st
     /\ served' = [status |-> st.status, message |-> st.message]
  /\ UNCHANGED <<identityProvider, apc, amsg, apoll>>

\* the response has gone out
ResponseSent ==
  /\ UNCHANGED nonA0Vars
  /\ served # NoServed
  /\ served' = NoServed
  /\ UNCHANGED <<identityProvider, auth0AuthorizationState, apc, amsg, apoll>>

\* ciba-provider lines 262-276: withCIBAAuthorization(tool) is called; the
\* selected coordinator starts an attempt (the standards-based one writes
\* requested, the Auth0 one calls bindingMessage)
withCIBAAuthorizationSelected(a, msg) ==
  /\ apc[a] = "idle" /\ wpc[a] = "idle"
  /\ IF getCIBAProvider(identityProvider) = "auth0"
     THEN bindingMessage(a, msg)
     ELSE StartWrapper(a, "ciba", Input("u-cred", NoUser, NoUser), msg, FALSE, FALSE)

\* a chat request that starts while no authorization attempt is under way
ChatRequestBetweenAttempts ==
  /\ \A a \in Atts : apc[a] = "idle" /\ wpc[a] = "idle"
  /\ ChatRequestResets

\* the state of the coordinator the provider selector picks
SelectedState ==
  IF getCIBAProvider(identityProvider) = "auth0"
  THEN auth0AuthorizationState ELSE authorizationState

(***************************************************************************)
(* parseSSE (planner.ts lines 110-143)                                     *)
(*                                                                         *)
(* The body is a sequence of tokens: the line break, the field name        *)
(* `data:`, and payload words.                                             *)
(***************************************************************************)
DataField == "data:"
DoneWord == "[DONE]"
\* a payload JSON.parse accepts: {"messages":[{"role":"assistant","content":"hi"}]}
JsonWord == "{messages:hi}"
TextWord == "t"

RECURSIVE SeqsUpTo(_, _)
SeqsUpTo(S, n) ==
  IF n = 0 THEN {<<>>}
  ELSE LET shorter == SeqsUpTo(S, n - 1) IN
       shorter \cup { Append(t, x) : t \in { u \in shorter : Len(u) = n - 1 }, x \in S }

\* the parts a response body is made of: a data line with a text, a JSON
\* value or [DONE], a line without a field name, a line break and the
\* blank-line separator
SseParts ==
  { <<DataField, TextWord>>, <<DataField, JsonWord>>, <<DataField, DoneWord>>,
    <<TextWord>>, <<NL>>, <<NL, NL>> }

RECURSIVE Flatten(_)
Flatten(parts) == IF parts = <<>> THEN <<>> ELSE Head(parts) \o Flatten(Tail(parts))

\* the response bodies drawn
SseStreams == { Flatten(ps) : ps \in SeqsUpTo(SseParts, MaxSseParts) }

\* buf.indexOf('\n\n'): position of the first blank-line separator, 0 if none
IndexOfSeparator(buf) ==
  IF \E i \in 1..(Len(buf) - 1) : buf[i] = NL /\ buf[i + 1] = NL
  THEN CHOOSE i \in 1..(Len(buf) - 1) :
         /\ buf[i] = NL /\ buf[i + 1] = NL
         /\ \A k \in 1..(i - 1) : ~(buf[k] = NL /\ buf[k + 1] = NL)
  ELSE 0

\* split(/\n/): the lines of a text, empty ones included
RECURSIVE SplitNL(_, _)
SplitNL(t, cur) ==
  IF t = <<>> THEN <<cur>>
  ELSE IF Head(t) = NL THEN <<cur>> \o SplitNL(Tail(t), <<>>)
  ELSE SplitNL(Tail(t), Append(cur, Head(t)))

\* line.startsWith('data:')
StartsWithData(line) == line # <<>> /\ Head(line) = DataField

\* lines 124-125: the payloads line.slice(5).trim() of the data lines
RECURSIVE DataLines(_)
DataLines(lines) ==
  IF lines = <<>> THEN <<>>
  ELSE (IF StartsWithData(Head(lines)) THEN <<Trim(Tail(Head(lines)))>> ELSE <<>>)
         \o DataLines(Tail(lines))

\* dataLines.join('\n')
RECURSIVE JoinNL(_)
JoinNL(parts) ==
  IF parts = <<>> THEN <<>>
  ELSE IF Len(parts) = 1 THEN parts[1]
  ELSE parts[1] \o <<NL>> \o JoinNL(Tail(parts))

DoneEvent == [kind |-> "done", payload |-> <<>>]

\* lines 128-129: [DONE], or JSON.parse(payload), or the payload as text
Decode(payload) ==
  IF payload = <<DoneWord>> THEN DoneEvent
  ELSE IF payload = <<JsonWord>> THEN [kind |-> "json", payload |-> payload]
  ELSE [kind |-> "text", payload |-> payload]

\* the state of the decoder: the buffer, the events emitted, and whether it
\* has returned
Decoder(buf, events, returned) == [buf |-> buf, events |-> events, returned |-> returned]

\* mutant of DrainBlocks: decoding goes on after [DONE]
RECURSIVE DrainBlocksPastDone(_)
DrainBlocksPastDone(d) ==
  LET idx == IndexOfSeparator(d.buf) IN
  IF idx = 0 THEN d
  ELSE LET block == Trim(SubSeq(d.buf, 1, idx - 1))
           rest == SubSeq(d.buf, idx + 2, Len(d.buf))
           dataLines == DataLines(SplitNL(block, <<>>))
       IN IF block = <<>> \/ dataLines = <<>>
          THEN DrainBlocksPastDone(Decoder(rest, d.events, FALSE))
          ELSE DrainBlocksPastDone(
                 Decoder(rest, Append(d.events, Decode(JoinNL(dataLines))), FALSE))

\* lines 119-130: the inner loop over the complete blocks of the buffer
RECURSIVE DrainBlocks(_)
DrainBlocks(d) ==
  LET idx == IndexOfSeparator(d.buf) IN
  IF idx = 0 THEN d
  ELSE LET block == Trim(SubSeq(d.buf, 1, idx - 1))
           rest == SubSeq(d.buf, idx + 2, Len(d.buf))
           dataLines == DataLines(SplitNL(block, <<>>))
       IN IF block = <<>> \/ dataLines = <<>>
          THEN DrainBlocks(Decoder(rest, d.events, FALSE))
          ELSE LET ev == Decode(JoinNL(dataLines)) IN
               IF ev.kind = "done"
               THEN Decoder(rest, Append(d.events, ev), TRUE)
               ELSE DrainBlocks(Decoder(rest, Append(d.events, ev), FALSE))

\* lines 133-140: the lines of the remaining buffer, trimmed, the empty ones
\* dropped; each data line is decoded by itself
RECURSIVE FlushLines(_, _)
FlushLines(lines, events) ==
  IF lines = <<>> THEN Decoder(<<>>, events, FALSE)
  ELSE LET l == Trim(Head(lines)) IN
       IF l = <<>> \/ ~StartsWithData(l) THEN FlushLines(Tail(lines), events)
       ELSE LET ev == Decode(Trim(Tail(l))) IN
            IF ev.kind = "done" THEN Decoder(<<>>, Append(events, ev), TRUE)
            ELSE FlushLines(Tail(lines), Append(events, ev))

\* lines 132-141: the flush at the end of the body
Flush(d) ==
  IF Trim(d.buf) = <<>> THEN Decoder(d.buf, d.events, FALSE)
  ELSE FlushLines(SplitNL(d.buf, <<>>), d.events)

\* planner.ts lines 177-196: the callback of callAgentWithStream applied to
\* one event; the JSON payload of the model carries one assistant message
FoldSse(ev, cur) ==
  CASE ev.kind = "json" -> <<"hi">>
    [] ev.kind = "text" -> ev.payload
    [] OTHER -> cur

RECURSIVE FoldAll(_, _)
FoldAll(events, cur) ==
  IF events = <<>> THEN cur ELSE FoldAll(Tail(events), FoldSse(Head(events), cur))

\* parseSSE applied to a body delivered by a single read
parseSSEWhole(body) ==
  LET d == DrainBlocks(Decoder(body, <<>>, FALSE)) IN
  IF d.returned THEN d.events ELSE Flush(d).events

SseInit(body) ==
  /\ sseStream = body
  /\ ssePos = 0
  /\ sseBuf = <<>>
  /\ sseEvents = <<>>
  /\ sseContent = <<>>
  /\ sseState = "reading"

\* lines 115-130: reader.read() delivers the next n tokens of the body; they
\* are appended to the buffer and the complete blocks are decoded
ReadValue(n) ==
  /\ UNCHANGED nonSseVars
  /\ sseState = "reading"
  /\ ssePos + n <= Len(sseStream)
  /\ LET chunk == SubSeq(sseStream, ssePos + 1, ssePos + n)
         d == DrainBlocks(Decoder(sseBuf \o chunk, <<>>, FALSE)) IN
     /\ ssePos' = ssePos + n
     /\ sseBuf' = d.buf
     /\ sseEvents' = sseEvents \o d.events
     /\ sseContent' = FoldAll(d.events, sseContent)
     /\ sseState' = IF d.returned THEN "returned" ELSE "reading"
  /\ UNCHANGED sseStream

\* lines 115-116 and 132-141: reader.read() reports the end of the body; what
\* is left in the buffer is flushed
ReadDone ==
  /\ UNCHANGED nonSseVars
  /\ sseState = "reading"
  /\ ssePos = Len(sseStream)
  /\ LET d == Flush(Decoder(sseBuf, <<>>, FALSE)) IN
     /\ sseBuf' = d.buf
     /\ sseEvents' = sseEvents \o d.events
     /\ sseContent' = FoldAll(d.events, sseContent)
     /\ sseState' = IF d.returned THEN "returned" ELSE "ended"
  /\ UNCHANGED <<sseStream, ssePos>>

(***************************************************************************)
(* The fallback module (auth0-ai-langchain-fallback.ts) and the chat route *)
(* that reads it                                                           *)
(***************************************************************************)
\* the arguments of a wrapped tool call: a product, the cart, nothing
FallbackArgs == {"product", "cart", "none"}
NoArgs == "-"

FallbackInit ==
  /\ fbAuthorizationState = IdleState
  /\ fbpc = [a \in Atts |-> "idle"]
  /\ fbArgs = [a \in Atts |-> NoArgs]
  /\ fbServed = NoServed

\* lines 29-35: the function returned by withAsyncAuthorization(fn) is called
\* with args: it calls fn(...args)
FallbackWrapperCalled(a, args) ==
  /\ UNCHANGED nonFbVars
  /\ fbpc[a] = "idle"
  /\ fbpc' = [fbpc EXCEPT ![a] = "fn"]
  /\ fbArgs' = [fbArgs EXCEPT ![a] = args]
  /\ UNCHANGED <<fbAuthorizationState, fbServed>>

\* line 34: fn returns (ok) or throws; so does the wrapper
FallbackFnSettles(a, ok) ==
  /\ UNCHANGED nonFbVars
  /\ fbpc[a] = "fn"
  /\ fbpc' = [fbpc EXCEPT ![a] = IF ok THEN "returned" ELSE "threw"]
  /\ UNCHANGED <<fbAuthorizationState, fbArgs, fbServed>>

\* the caller has the wrapper's result
FallbackFinish(a) ==
  /\ UNCHANGED nonFbVars
  /\ fbpc[a] \in {"returned", "threw"}
  /\ fbpc' = [fbpc EXCEPT ![a] = "idle"]
  /\ fbArgs' = [fbArgs EXCEPT ![a] = NoArgs]
  /\ UNCHANGED <<fbAuthorizationState, fbServed>>

\* lines 17-26: resetAuthorizationState() (called by the chat route when a
\* request starts) and notifyShopAuthReset()
FallbackReset ==
  /\ UNCHANGED nonFbVars
  /\ fbAuthorizationState' = IdleState
  /\ UNCHANGED <<fbpc, fbArgs, fbServed>>

\* lines 12-15: getAuthorizationState(), read by the chat route for its
\* response
FallbackGetAuthorizationState ==
  /\ UNCHANGED nonFbVars
  /\ fbServed = NoServed
  /\ fbServed' = fbAuthorizationState
  /\ UNCHANGED <<fbAuthorizationState, fbpc, fbArgs>>

\* the chat response has gone out
FallbackResponseSent ==
  /\ UNCHANGED nonFbVars
  /\ fbServed # NoServed
  /\ fbServed' = NoServed
  /\ UNCHANGED <<fbAuthorizationState, fbpc, fbArgs>>

(***************************************************************************)
(* The enclosing request                                                   *)
(***************************************************************************)
\* the caller disconnects while a poll or a call of the gateway is under way;
\* neither pollCIBAResult (part_001 lines 148-236) nor callAgentWithStream
\* (planner.ts lines 145-226) takes or consults an abort signal
RequestAborted ==
  /\ UNCHANGED nonReqVars
  /\ ~aborted
  /\ \/ \E a \in Atts : ppc[a] \in {"wait", "fetch"}
     \/ \E p \in Procs : pc[p] \notin {"idle", "done"}
  /\ aborted' = TRUE

(***************************************************************************)
(* The Auth0 coordinator of manual-ciba.ts and its status messages         *)
(***************************************************************************)
\* createAuthorizationStatusMessage (lines 80-94): the phase text and the
\* advisory auto-expiry duration handed to the reader
AuthorizationStatusMessage(step, autoRemoveMs) ==
  [step |-> step, ephemeral |-> TRUE, autoRemoveMs |-> autoRemoveMs]

SentMessage == AuthorizationStatusMessage("sent", 60000)
ApprovedMessage == AuthorizationStatusMessage("approved", 60000)
NoPublished == "none"

\* updateAuthorizationStatusMessage(phase), lines 97-122: clear the store,
\* then push the message of the phase
updateAuthorizationStatusMessage(stored, step) ==
  Append(<<>>, AuthorizationStatusMessage(step, 60000))

McInit ==
  /\ mcAuthorizationState = IdleState
  /\ authorizationStatusMessages = <<>>
  /\ isToolExecutionInProgress = FALSE
  /\ mpc = [a \in Atts |-> "idle"]
  /\ mcPublished = [a \in Atts |-> NoPublished]

\* lines 226-267: bindingMessage replaces the state by
\* { status: 'requested', message }
McBindingMessage(a, msg) ==
  /\ UNCHANGED nonMcVars
  /\ mpc[a] = "idle"
  /\ mcAuthorizationState' = [status |-> "requested", message |-> msg]
  /\ mpc' = [mpc EXCEPT ![a] = "requested"]
  /\ UNCHANGED <<authorizationStatusMessages, isToolExecutionInProgress, mcPublished>>

\* lines 275-289: onAuthorizationRequest publishes 'sent', sets
\* status = 'pending' and awaits the poll
McOnAuthorizationRequest(a) ==
  /\ UNCHANGED nonMcVars
  /\ mpc[a] = "requested"
  /\ authorizationStatusMessages' =
       updateAuthorizationStatusMessage(authorizationStatusMessages, "sent")
  /\ mcPublished' = [mcPublished EXCEPT ![a] = "sent"]
  /\ mcAuthorizationState' = [mcAuthorizationState EXCEPT !.status = "pending"]
  /\ mpc' = [mpc EXCEPT ![a] = "polling"]
  /\ UNCHANGED isToolExecutionInProgress

\* lines 289-315: the poll settles with r.  Credentials: status = 'approved'
\* and the 'approved' phase is published, which also sets
\* isToolExecutionInProgress (line 111).  Nothing or an error: status =
\* 'denied' and the store is cleared.
McPollSettles(a, r) ==
  /\ UNCHANGED nonMcVars
  /\ mpc[a] = "polling"
  /\ IF r = "tokens"
     THEN /\ mcAuthorizationState' = [mcAuthorizationState EXCEPT !.status = "approved"]
          /\ authorizationStatusMessages' =
               updateAuthorizationStatusMessage(authorizationStatusMessages, "approved")
          /\ isToolExecutionInProgress' = TRUE
          /\ mcPublished' = [mcPublished EXCEPT ![a] = "approved"]
          /\ mpc' = [mpc EXCEPT ![a] = "tool"]
     ELSE /\ mcAuthorizationState' = [mcAuthorizationState EXCEPT !.status = "denied"]
          /\ authorizationStatusMessages' = <<>>
          /\ mcPublished' = [mcPublished EXCEPT ![a] = NoPublished]
          /\ mpc' = [mpc EXCEPT ![a] = "unauthorized"]
          /\ UNCHANGED isToolExecutionInProgress

\* lines 317-343: onUnauthorized clears the store and replaces the state by
\* { status: 'denied', message }
McOnUnauthorized(a, msg) ==
  /\ UNCHANGED nonMcVars
  /\ mpc[a] = "unauthorized"
  /\ authorizationStatusMessages' = <<>>
  /\ mcAuthorizationState' = [status |-> "denied", message |-> msg]
  /\ mpc' = [mpc EXCEPT ![a] = "done"]
  /\ UNCHANGED <<isToolExecutionInProgress, mcPublished>>

\* lines 174-195: the wrapped tool returns or throws; either way
\* clearAuthorizationOnToolCompletion (lines 133-139) clears the store when
\* isToolExecutionInProgress is set, and unsets it
McToolCompletes(a, ok) ==
  /\ UNCHANGED nonMcVars
  /\ mpc[a] = "tool"
  /\ IF isToolExecutionInProgress
     THEN authorizationStatusMessages' = <<>> /\ isToolExecutionInProgress' = FALSE
     ELSE UNCHANGED <<authorizationStatusMessages, isToolExecutionInProgress>>
  /\ mpc' = [mpc EXCEPT ![a] = "done"]
  /\ mcPublished' = [mcPublished EXCEPT ![a] = NoPublished]
  /\ UNCHANGED mcAuthorizationState

\* the caller has the result of the wrapped tool call
McFinish(a) ==
  /\ UNCHANGED nonMcVars
  /\ mpc[a] = "done"
  /\ mpc' = [mpc EXCEPT ![a] = "idle"]
  /\ mcPublished' = [mcPublished EXCEPT ![a] = NoPublished]
  /\ UNCHANGED <<mcAuthorizationState, authorizationStatusMessages,
                 isToolExecutionInProgress>>

\* lines 155-164: resetAuthorizationState, called when a chat request starts
McResetAuthorizationState ==
  /\ UNCHANGED nonMcVars
  /\ mcAuthorizationState # IdleState
  /\ mcAuthorizationState' = IdleState
  /\ UNCHANGED <<authorizationStatusMessages, isToolExecutionInProgress, mpc, mcPublished>>

(***************************************************************************)
(* The SSE response of the chat endpoint (chat/route.ts lines 67-289; the  *)
(* variant of part_010 differs only in the fallback text of the final      *)
(* message)                                                                *)
(***************************************************************************)
\* an event written by sendSSE (lines 72-75)
ChatEvent(type, content) == [type |-> type, content |-> content]

FallbackText == "I'm sorry, I couldn't process that request."
TimeoutText == "your request is taking longer than expected"
AssistantText == "I'm your shopping assistant!"

\* the node output of a chunk, by the fields the loop reads: a planner
\* recommendation, a routing decision (next set and not '__end__'), the
\* workflow context, and the timestamp of an ephemeral progress message
\* (0: the chunk holds none)
ChatChunks ==
  [ rec : BOOLEAN, routes : BOOLEAN, workflowContext : Contexts \cup {NoContext},
    progressTs : 0..2 ]

\* lines 101-153: the metadata events of a chunk
ChatMetadata(chunk, prev) ==
  (IF chunk.rec THEN <<ChatEvent("metadata", "planner_recommendation")>> ELSE <<>>)
  \o (IF chunk.routes THEN <<ChatEvent("metadata", "supervisor_decision")>> ELSE <<>>)
  \o (IF chunk.workflowContext # NoContext /\ chunk.workflowContext # prev
      THEN <<ChatEvent("metadata", "workflow_context")>> ELSE <<>>)

\* lines 157-192: the progress event of a chunk, unless its timestamp was
\* sent before
ChatProgress(chunk, sent) ==
  IF chunk.progressTs # 0 /\ chunk.progressTs \notin sent
  THEN <<ChatEvent("progress", "working")>> ELSE <<>>

\* the catch block without its done signal
ChatCatchNoDone(timeout) ==
  <<ChatEvent("error", IF timeout THEN TimeoutText ELSE AssistantText)>>

\* lines 272-285: the catch block sends the error event and the done signal
ChatCatch(timeout) ==
  <<ChatEvent("error", IF timeout THEN TimeoutText ELSE AssistantText),
    ChatEvent("done", "")>>

\* lines 261-270: the final message (finalResponse or the fallback text) and
\* the done signal
ChatFinal(finalResponse) ==
  <<ChatEvent("message", IF finalResponse # "" THEN finalResponse ELSE FallbackText),
    ChatEvent("done", "")>>

ChatInit ==
  /\ chatPc = "idle"
  /\ chatSent = <<>>
  /\ chatPreviousContext = NoContext
  /\ sentProgressTimestamps = {}
  /\ chatChunks = 0

\* lines 67-92: the response stream starts and awaits agent.stream(); when
\* that throws, the catch block answers and the finally block closes
ChatStreamStarts(ok, timeout) ==
  /\ UNCHANGED nonChatVars
  /\ chatPc = "idle"
  /\ IF ok THEN chatPc' = "streaming" /\ chatSent' = <<>>
     ELSE chatPc' = "closed" /\ chatSent' = ChatCatch(timeout)
  /\ chatPreviousContext' = NoContext
  /\ sentProgressTimestamps' = {}
  /\ chatChunks' = 0

\* lines 94-193: one chunk of the agent stream
ChatChunkRead(chunk) ==
  /\ UNCHANGED nonChatVars
  /\ chatPc = "streaming"
  /\ chatChunks < MaxChatChunks
  /\ chatChunks' = chatChunks + 1
  /\ chatSent' = chatSent \o ChatMetadata(chunk, chatPreviousContext)
                          \o ChatProgress(chunk, sentProgressTimestamps)
  /\ chatPreviousContext' =
       IF chunk.workflowContext # NoContext THEN chunk.workflowContext
       ELSE chatPreviousContext
  /\ sentProgressTimestamps' =
       IF chunk.progressTs # 0 THEN sentProgressTimestamps \cup {chunk.progressTs}
       ELSE sentProgressTimestamps
  /\ UNCHANGED chatPc

\* the agent stream throws while it is iterated: lines 272-287
ChatStreamThrows(timeout) ==
  /\ UNCHANGED nonChatVars
  /\ chatPc = "streaming"
  /\ chatSent' = chatSent \o ChatCatch(timeout)
  /\ chatPc' = "closed"
  /\ UNCHANGED <<chatPreviousContext, sentProgressTimestamps, chatChunks>>

\* the agent stream completes: lines 195-270 extract the final response
\* (which may throw on an unexpected message shape, before anything is
\* sent), send the final message and the done signal; line 287 closes
ChatStreamCompletes(extractionThrows, finalResponse) ==
  /\ UNCHANGED nonChatVars
  /\ chatPc = "streaming"
  /\ chatSent' = chatSent \o (IF extractionThrows THEN ChatCatch(FALSE)
                              ELSE ChatFinal(finalResponse))
  /\ chatPc' = "closed"
  /\ UNCHANGED <<chatPreviousContext, sentProgressTimestamps, chatChunks>>

\* the next chat request
ChatNextRequest ==
  /\ UNCHANGED nonChatVars
  /\ chatPc = "closed"
  /\ chatPc' = "idle"
  /\ chatSent' = <<>>
  /\ chatPreviousContext' = NoContext
  /\ sentProgressTimestamps' = {}
  /\ chatChunks' = 0

InitCall == GatewayInit(MaxRetries) /\ AuthInit /\ StreamInit
  /\ Auth0Init /\ identityProvider = "unset" /\ SseInit(<<>>) /\ FallbackInit /\ aborted = FALSE /\ McInit /\ ChatInit /\ ContextInit

InitThreads == GatewayInit(MaxRetriesShared) /\ AuthInit /\ StreamInit
  /\ Auth0Init /\ identityProvider = "unset" /\ SseInit(<<>>) /\ FallbackInit /\ aborted = FALSE /\ McInit /\ ChatInit /\ ContextInit

InitAuth == GatewayInit(MaxRetries) /\ AuthInit /\ StreamInit
  /\ Auth0Init /\ identityProvider = "unset" /\ SseInit(<<>>) /\ FallbackInit /\ aborted = FALSE /\ McInit /\ ChatInit /\ ContextInit

\* one caller making one call for one conversation, with every stream event
\* and the jitter samples; the clock stands still
NextCall ==
  \/ StartCall("p1", "c1", 1)
  \/ ensureThread("p1")
  \/ CreateThreadOk("p1")
  \/ \E e \in CreateFailures, j \in JitterSamples : CreateThreadFails("p1", e, j)
  \/ RunOk("p1")
  \/ \E e \in RunFailures, j \in JitterSamples : RunFails("p1", e, j)
  \/ \E ev \in Events : StreamEvent("p1", ev, MaxEvents)
  \/ \E j \in JitterSamples : StreamFails("p1", j)
  \/ \E d \in BOOLEAN : StreamEnd("p1", d)
  \/ Retry("p1")
  \/ Return("p1")

SpecCall == InitCall /\ [][NextCall]_vars

\* two callers sharing the thread cache; their run streams end without events
NextThreads ==
  \/ \E p \in Procs, c \in Convs : StartCall(p, c, MaxCalls)
  \/ \E p \in Procs : ensureThread(p)
  \/ \E p \in Procs : CreateThreadOk(p)
  \/ \E p \in Procs, e \in {ErrFetchFailed, ErrNoId}, j \in {JitterRange - 1} :
       CreateThreadFails(p, e, j)
  \/ \E p \in Procs : RunOk(p)
  \/ \E p \in Procs, e \in {ErrFetchFailed, ErrNoReader}, j \in {JitterRange - 1} : RunFails(p, e, j)
  \/ \E p \in Procs, j \in {JitterRange - 1} : StreamFails(p, j)
  \/ \E p \in Procs : StreamEnd(p, TRUE)
  \/ \E p \in Procs : Retry(p)
  \/ \E p \in Procs : Return(p)
  \/ Tick

SpecThreads == InitThreads /\ [][NextThreads]_vars

\* the stream events of the retry specification: a text and a full-messages
\* event with one assistant message
RetryEvents == {TextEvent("tx"), MessagesEvent(<<Msg("assistant", "", StrContent("hi"))>>)}

\* one caller making one call whose streams deliver the events above; every
\* awaited request settles and every backoff wait ends
NextRetry ==
  \/ \E c \in Convs : StartCall("p1", c, 1)
  \/ ensureThread("p1")
  \/ CreateThreadOk("p1")
  \/ \E e \in CreateFailures, j \in JitterSamples : CreateThreadFails("p1", e, j)
  \/ RunOk("p1")
  \/ \E e \in RunFailures, j \in JitterSamples : RunFails("p1", e, j)
  \/ \E ev \in RetryEvents : StreamEvent("p1", ev, MaxEvents)
  \/ \E j \in JitterSamples : StreamFails("p1", j)
  \/ \E d \in BOOLEAN : StreamEnd("p1", d)
  \/ Retry("p1")
  \/ Return("p1")

SpecRetry == InitCall /\ [][NextRetry]_vars /\ WF_vars(NextRetry)

\* direct calls of pollCIBAResult, one after the other
NextPoll ==
  \/ \E i \in PollIntervals, max \in 1..MaxPollAttempts : StartPoll("a1", i, max)
  \/ PollWaitDone("a1")
  \/ \E r \in Responses : PollResponse("a1", r)
  \/ Finish("a1")

SpecPoll == InitAuth /\ [][NextPoll]_vars

\* authorization attempts through the two wrappers, one after the other,
\* and resets between them
NextAuth ==
  \/ \E in \in Inputs, msg \in BindingMessages :
       StartWrapper("a1", "ciba", in, msg, FALSE, FALSE)
  \/ \E in \in Inputs, msg \in BindingMessages, f \in BOOLEAN, g \in BOOLEAN :
       StartWrapper("a1", "confirm", in, msg, f, g)
  \/ \E ok \in BOOLEAN : SetPending("a1", ok)
  \/ \E e \in 1..MaxExpiresIn, i \in PollIntervals : InitiateOk("a1", e, i)
  \/ InitiateFails("a1")
  \/ PollWaitDone("a1")
  \/ \E r \in Responses : PollResponse("a1", r)
  \/ OnAuthorizationRequestReturns("a1")
  \/ OnAuthorizationRequestThrows("a1")
  \/ PollSettled("a1")
  \/ OnUnauthorizedInTrySettles("a1")
  \/ OnUnauthorizedInCatchSettles("a1")
  \/ ToolReturns("a1")
  \/ ToolThrows("a1")
  \/ Finish("a1")
  \/ resetAuthorizationState

SpecAuth == InitAuth /\ [][NextAuth]_vars

\* one chat-stream request: the chunks of its agent stream, then its end
NextStream ==
  \/ \E chunk \in Chunks : ReadChunk(chunk)
  \/ StreamThrows
  \/ StreamCloses

SpecStream == InitCall /\ [][NextStream]_vars

InitProvider ==
  /\ GatewayInit(MaxRetries) /\ AuthInit /\ StreamInit /\ Auth0Init
  /\ SseInit(<<>>) /\ FallbackInit /\ aborted = FALSE /\ McInit /\ ChatInit /\ ContextInit
  /\ identityProvider \in IdentityProviders

\* one process under some IDENTITY_PROVIDER setting: authorization attempts,
\* one after the other, through the provider selector, chat requests that
\* reset the state between them, and status queries at any moment
NextProvider ==
  \/ \E msg \in BindingMessages : withCIBAAuthorizationSelected("a1", msg)
  \/ onAuthorizationRequest("a1")
  \/ \E r \in {"tokens", "null", "error"} : PollPromiseSettles("a1", r)
  \/ \E msg \in {"The user has denied the request", "poll failed"} : onUnauthorized("a1", msg)
  \/ Auth0ToolCompletes("a1")
  \/ Auth0Finish("a1")
  \/ SetPending("a1", TRUE)
  \/ InitiateOk("a1", 1, 1)
  \/ \E r \in {"ok", "denied"} : PollResponse("a1", r)
  \/ PollSettled("a1")
  \/ ToolReturns("a1")
  \/ ToolThrows("a1")
  \/ Finish("a1")
  \/ ChatRequestBetweenAttempts
  \/ \E shopApproved \in BOOLEAN : GetAuthStatus(shopApproved)
  \/ ResponseSent

SpecProvider == InitProvider /\ [][NextProvider]_vars

\* two overlapping authorization attempts through the Auth0 coordinator and
\* chat requests, each resetting the state when it starts
NextOverlap ==
  \/ \E a \in Atts, msg \in BindingMessages : bindingMessage(a, msg)
  \/ \E a \in Atts : onAuthorizationRequest(a)
  \/ \E a \in Atts, r \in {"tokens", "null", "error"} : PollPromiseSettles(a, r)
  \/ \E a \in Atts, msg \in {"The user has denied the request", "poll failed"} :
       onUnauthorized(a, msg)
  \/ \E a \in Atts : Auth0ToolCompletes(a)
  \/ \E a \in Atts : Auth0Finish(a)
  \/ ChatRequestResets

SpecOverlap == InitAuth /\ [][NextOverlap]_vars

InitSse ==
  /\ GatewayInit(MaxRetries) /\ AuthInit /\ StreamInit /\ Auth0Init
  /\ identityProvider = "unset"
  /\ \E body \in SseStreams : SseInit(body)
  /\ FallbackInit
  /\ aborted = FALSE /\ McInit /\ ChatInit /\ ContextInit

\* parseSSE reading one response body, split across reads in every way
NextSse ==
  \/ \E n \in 1..(2 * MaxSseParts) : ReadValue(n)
  \/ ReadDone

SpecSse == InitSse /\ [][NextSse]_vars

\* one request enclosing a poll and a call of the gateway whose requests fail
\* with connection errors; the caller may disconnect at any moment
NextAbort ==
  \/ \E i \in PollIntervals, max \in 1..MaxPollAttempts : StartPoll("a1", i, max)
  \/ PollWaitDone("a1")
  \/ \E r \in Responses : PollResponse("a1", r)
  \/ Finish("a1")
  \/ StartCall("p1", "c1", 1)
  \/ ensureThread("p1")
  \/ CreateThreadOk("p1")
  \/ CreateThreadFails("p1", ErrFetchFailed, 0)
  \/ RunOk("p1")
  \/ RunFails("p1", ErrFetchFailed, 0)
  \/ StreamEnd("p1", TRUE)
  \/ Retry("p1")
  \/ Return("p1")
  \/ RequestAborted

SpecAbort == InitAuth /\ [][NextAbort]_vars

\* tool calls through the fallback wrapper, overlapping, with the chat route
\* resetting and reading the fallback module's state
NextFallback ==
  \/ \E a \in Atts, args \in FallbackArgs : FallbackWrapperCalled(a, args)
  \/ \E a \in Atts, ok \in BOOLEAN : FallbackFnSettles(a, ok)
  \/ \E a \in Atts : FallbackFinish(a)
  \/ FallbackReset
  \/ FallbackGetAuthorizationState
  \/ FallbackResponseSent

SpecFallback == InitAuth /\ [][NextFallback]_vars

\* two authorization attempts through the coordinator of manual-ciba.ts, free
\* to overlap, and chat requests that reset the state
NextStatusMessages ==
  \/ \E a \in Atts, msg \in BindingMessages : McBindingMessage(a, msg)
  \/ \E a \in Atts : McOnAuthorizationRequest(a)
  \/ \E a \in Atts, r \in {"tokens", "null", "error"} : McPollSettles(a, r)
  \/ \E a \in Atts, msg \in {"The user has denied the request", "poll failed"} :
       McOnUnauthorized(a, msg)
  \/ \E a \in Atts, ok \in BOOLEAN : McToolCompletes(a, ok)
  \/ \E a \in Atts : McFinish(a)
  \/ McResetAuthorizationState

SpecStatusMessages == InitAuth /\ [][NextStatusMessages]_vars

\* one stream of chunks described by the fields extractMetadata reads
NextContext ==
  \/ \E chunk \in MetaChunks : ReadMetaChunk(chunk)
  \/ NewStream

SpecContext == InitAuth /\ [][NextContext]_vars

\* chat requests answered by an SSE response, one after the other
NextChat ==
  \/ \E ok \in BOOLEAN, timeout \in BOOLEAN : ChatStreamStarts(ok, timeout)
  \/ \E chunk \in ChatChunks : ChatChunkRead(chunk)
  \/ \E timeout \in BOOLEAN : ChatStreamThrows(timeout)
  \/ \E extractionThrows \in BOOLEAN, finalResponse \in {"", "hi"} :
       ChatStreamCompletes(extractionThrows, finalResponse)
  \/ ChatNextRequest

SpecChat == InitAuth /\ [][NextChat]_vars

\* calls of the refresh scenario
RefreshCalls == MaxCalls + 1

\* callers using the conversations one caller at a time per conversation,
\* while the clock advances: bindings are created, refreshed and swept
NextRefresh ==
  \/ \E p \in Procs, c \in Convs :
       /\ \A q \in Procs \ {p} : pc[q] = "idle" \/ conv[q] # c
       /\ StartCall(p, c, RefreshCalls)
  \/ \E p \in Procs : ensureThread(p)
  \/ \E p \in Procs : CreateThreadOk(p)
  \/ \E p \in Procs : CreateThreadFails(p, ErrNoId, 0)
  \/ \E p \in Procs : RunOk(p)
  \/ \E p \in Procs : StreamEnd(p, TRUE)
  \/ \E p \in Procs : Return(p)
  \/ Tick

SpecRefresh == InitThreads /\ [][NextRefresh]_vars

(***************************************************************************)
(* Properties of the gateway                                               *)
(***************************************************************************)

\* C1: two ensureThread calls for one conversation id that overlap (the
\* second starts while the first awaits the create-thread response) resolve
\* to the same thread id, and only one create-thread request is issued.
C1_OverlappingEnsureOneThread ==
  \A p, q \in Procs :
    (p # q /\ conv[p] = conv[q]) =>
      /\ ~(pc[p] = "awaitCreate" /\ pc[q] = "awaitCreate")
      /\ (overlapWith[q] = p /\ threadId[p] # NoThread /\ threadId[q] # NoThread)
           => threadId[p] = threadId[q]

\* the step in which caller p's successful call sweeps the thread cache
SweepStep(p) == pc[p] = "stream" /\ pc'[p] = "done" /\ result'[p].ok

C5_NoExpiredHit ==
  [][ \A p \in Procs :
        (pc[p] = "ensure" /\ pc'[p] = "awaitRun") =>
          ~IsStale(conversationThreadTimestamps[conv[p]], now, TtlTicks) ]_vars

\* the events of a log are all full-messages events
OnlyFullMessages(log) == \A e \in 1..Len(log) : log[e].kind = "messages"

\* positions <<event, index>> of the assistant messages with content in a log
Qualifying(log) ==
  UNION { { <<e, i>> : i \in { k \in 1..Len(log[e].messages) :
                LET m == log[e].messages[k] IN
                  /\ m.role = "assistant" \/ m.type = "ai"
                  /\ m.content # StrContent("") /\ m.content # NoContent } }
          : e \in 1..Len(log) }

\* the content, as a string, of the newest qualifying message of a log: the
\* last event that has one, and in it the last such message
NewestAssistantContent(log) ==
  IF Qualifying(log) = {} THEN ""
  ELSE LET x == CHOOSE y \in Qualifying(log) :
                  \A z \in Qualifying(log) :
                    z[1] < y[1] \/ (z[1] = y[1] /\ z[2] <= y[2])
           c == log[x[1]].messages[x[2]].content
       IN IF c.t = "str" THEN c.v ELSE "{" \o c.v \o "}"

\* C6: on a stream of full-messages events ended by [DONE] the returned
\* content is that of the newest assistant (role assistant or type ai) message
\* with non-empty content, later events overriding earlier ones; one event
\* holding one assistant message 'hi' gives 'hi'.
C6_NewestAssistantContent ==
  \A p \in Procs :
    (pc[p] = "done" /\ result[p].ok /\ result[p].done /\ OnlyFullMessages(evlog[p]))
      => /\ result[p].content = NewestAssistantContent(evlog[p])
         /\ evlog[p] = <<MessagesEvent(<<Msg("assistant", "", StrContent("hi"))>>)>>
              => result[p].content = "hi"

\* C6 witness: two full-messages events, the earlier selecting 'hi', the later
\* holding an older 'hi' and a newer 'yo'; the call returned 'yo'
C6_Witness ==
  \E p \in Procs :
    /\ pc[p] = "done" /\ result[p].ok /\ result[p].done
    /\ evlog[p] = << MessagesEvent(<<Msg("assistant", "", StrContent("hi"))>>),
                     MessagesEvent(<<Msg("assistant", "", StrContent("hi")),
                                     Msg("", "ai", StrContent("yo"))>>) >>
    /\ result[p].content = "yo"

\* C10: the wait before retry n (n = 1, 2, 3) is baseDelay * 2^(n-1) plus an
\* integer jitter in [0,100): with baseDelay 1000 the waits lie in
\* [1000,1100), [2000,2100) and [4000,4100) ms.
C10_BackoffWindows ==
  \A p \in Procs :
    pc[p] = "backoff" =>
      /\ attempt[p] \in 1..3
      /\ backoff[p] - RetryDelay * (2 ^ (attempt[p] - 1)) \in 0..99
      /\ attempt[p] = 1 => (1000 <= backoff[p] /\ backoff[p] < 1100)
      /\ attempt[p] = 2 => (2000 <= backoff[p] /\ backoff[p] < 2100)
      /\ attempt[p] = 3 => (4000 <= backoff[p] /\ backoff[p] < 4100)

\* C10 witness: the third retry waits with the largest jitter
C10_Witness ==
  \E p \in Procs : pc[p] = "backoff" /\ attempt[p] = 3 /\ backoff[p] = 4099

(***************************************************************************)
(* Properties of the coordinator and of pollCIBAResult                     *)
(***************************************************************************)

\* C2: the wrappers invoke the wrapped tool function only at a moment when
\* authorizationState.status is approved and the poll of that same call has
\* returned tokens; when the poll returns null or throws, the tool function
\* is never invoked.
C2_ToolOnlyAfterApproval ==
  /\ [](\A a \in Atts : toolInvoked[a] => (ppc[a] = "settled" /\ pollResult[a] = "tokens"))
  /\ [][ \A a \in Atts :
           (~toolInvoked[a] /\ toolInvoked'[a]) =>
             /\ authorizationState'.status = "approved"
             /\ ppc[a] = "settled" /\ pollResult[a] = "tokens" ]_vars

\* C2 witness: withAsyncUserConfirmation runs the tool after a poll that was
\* first answered authorization_pending and then with tokens
C2_Witness ==
  \E a \in Atts :
    /\ wrapper[a] = "confirm" /\ wpc[a] = "tool" /\ toolInvoked[a]
    /\ responses[a] = <<"pending", "ok">>
    /\ authorizationState.status = "approved"

\* the status changes of idle -> requested -> pending -> approved|denied -> idle
StatusOrder ==
  { <<"idle", "requested">>, <<"requested", "pending">>,
    <<"pending", "approved">>, <<"pending", "denied">>,
    <<"approved", "idle">>, <<"denied", "idle">> }

\* C3: over non-overlapping attempts and resets, every change of
\* authorizationState.status follows idle -> requested -> pending ->
\* approved|denied -> idle: approved is never changed to denied, no state is
\* skipped, and a new attempt starts only from idle.
C3_StatusFollowsOrder ==
  [][ authorizationState'.status # authorizationState.status =>
        <<authorizationState.status, authorizationState'.status>> \in StatusOrder ]_vars

\* the answers before the last one are all authorization_pending
PendingBeforeLast(log) == \A n \in 1..(Len(log) - 1) : log[n] = "pending"

\* C7: given k authorization_pending answers followed by a success answer at
\* attempt k+1 <= maxAttempts, pollCIBAResult returns the tokens after
\* exactly k+1 token requests and exactly k waits of `interval` seconds,
\* with no wait before the first request.
C7_PendingThenTokens ==
  \A a \in Atts :
    /\ (ppc[a] = "fetch" /\ pollAttempt[a] = 1) => (waits[a] = 0 /\ requests[a] = 1)
    /\ ( /\ Len(responses[a]) >= 1
         /\ responses[a][Len(responses[a])] = "ok"
         /\ PendingBeforeLast(responses[a]) )
       => LET k == Len(responses[a]) - 1 IN
            /\ ppc[a] = "settled" /\ pollResult[a] = "tokens"
            /\ requests[a] = k + 1
            /\ waits[a] = k
            /\ waited[a] = k * interval[a]

\* C7 witness: pending, pending, tokens: two waits
C7_Witness ==
  \E a \in Atts :
    /\ wrapper[a] = "poll"
    /\ responses[a] = <<"pending", "pending", "ok">>
    /\ pollResult[a] = "tokens" /\ waits[a] = 2

\* C8: when the provider answers access_denied at some attempt, pollCIBAResult
\* returns null as a value (it does not throw) and issues no further token
\* request.
C8_DeniedReturnsNull ==
  \A a \in Atts :
    \A n \in 1..Len(responses[a]) :
      responses[a][n] = "denied" =>
        /\ n = Len(responses[a])
        /\ ppc[a] = "settled" /\ pollResult[a] = "null"
        /\ requests[a] = n

\* C8 witness: access_denied at the second attempt
C8_Witness ==
  \E a \in Atts :
    /\ wrapper[a] = "poll"
    /\ responses[a] = <<"pending", "denied">>
    /\ pollResult[a] = "null" /\ requests[a] = 2

\* C9: pollCIBAResult never issues more than maxAttempts token requests; when
\* all maxAttempts attempts are answered authorization_pending it fails with
\* the timeout error after exactly maxAttempts requests and maxAttempts - 1
\* waits.
C9_AttemptCeiling ==
  \A a \in Atts :
    wrapper[a] = "poll" =>
      /\ requests[a] <= maxAttempts[a]
      /\ ( /\ Len(responses[a]) = maxAttempts[a]
           /\ \A n \in 1..Len(responses[a]) : responses[a][n] = "pending" )
         => /\ ppc[a] = "settled" /\ pollResult[a] = "timeout"
            /\ requests[a] = maxAttempts[a]
            /\ waits[a] = maxAttempts[a] - 1

\* C9 witness: three attempts, all pending, ending in the timeout error
C9_Witness ==
  \E a \in Atts :
    /\ wrapper[a] = "poll" /\ maxAttempts[a] = 3
    /\ responses[a] = <<"pending", "pending", "pending">>
    /\ pollResult[a] = "timeout" /\ requests[a] = 3 /\ waits[a] = 2
(***************************************************************************)
(* Failure handling of the gateway                                         *)
(***************************************************************************)

\* the step in which an attempt of caller p ends in the catch block
FailStep(p) ==
  pc[p] \in {"awaitCreate", "awaitRun", "stream"} /\ attempt'[p] = attempt[p] + 1

PlanCarriers ==
  { JsonLineChunk(PlanObj),
    ObjectChunk(PlanObj),
    ObjectChunk(ContentObj(Stringify(PlanObj))),
    ObjectChunk(MessagesObj(<<Stringify(PlanObj)>>)) }

\* C12: for a chunk that carries a plan-like payload (a JSON text line, an
\* object chunk, the content string of a chunk or of a message inside a
\* chunk) and nothing else, the reclassifier enqueues no message, status or
\* raw event: whatever it enqueues is a metadata event.
C12_PlanPayloadOnlyMetadata ==
  lastChunk \in PlanCarriers =>
    \A i \in 1..Len(lastEmitted) : lastEmitted[i].type \in {"meta", "metadata"}

\* non-empty, at most 200 characters, and holding a progress keyword
IsProgressText(t) ==
  /\ t # <<>> /\ TextLen(t) <= 200
  /\ \E i \in 1..Len(t) : t[i] \in KeywordTokens

\* a value on the object-chunk, the JSON-line and the embedded-JSON path
PathChunks(o) == {ObjectChunk(o), JsonLineChunk(o), EmbeddedChunk(o)}

\* C13: an extracted text is enqueued as a status event exactly when it is
\* non-empty, at most 200 characters long and holds a progress keyword, or its
\* source chunk carries the ephemeral marker; every other extracted text is
\* enqueued as a message event; on the object-chunk, JSON-line and
\* embedded-JSON path alike.
C13_StatusExactlyWhenProgress ==
  \A o \in ObjPool :
    (lastChunk \in PathChunks(o) /\ ~o.type.has) =>
      \A i \in 1..Len(lastEmitted) :
        lastEmitted[i].type \in {"status", "message", "raw"} =>
          /\ lastEmitted[i].type \in {"status", "message"}
          /\ lastEmitted[i].type = "status"
               <=> (IsProgressText(lastEmitted[i].text) \/ o.ephemeral)

(***************************************************************************)
(* Properties of the status query and of overlapping attempts              *)
(***************************************************************************)

\* C14: whatever IDENTITY_PROVIDER is set to, the response of GET auth-status
\* carries the status and message of the state of the coordinator that the
\* provider selector picks, as it stands when the response is built.
C14_StatusQueryReflectsSelected ==
  [][ (served = NoServed /\ served' # NoServed) =>
        /\ served'.status = SelectedState'.status
        /\ served'.message = SelectedState'.message ]_vars

\* C17: once approved, the status stays approved while the wrapped action
\* runs, and it leaves approved only toward idle and only after the action has
\* completed; a failure of the action does not change it to denied.
C17_ApprovedUntilActionCompletes ==
  /\ [](\A a \in Atts : wpc[a] = "tool" => authorizationState.status = "approved")
  /\ [][ (authorizationState.status = "approved"
            /\ authorizationState'.status # "approved") =>
           /\ authorizationState'.status = "idle"
           /\ \A a \in Atts : wpc[a] # "tool" ]_vars

\* C18: with two chat requests interleaved in one process, each resetting the
\* state when it starts whatever the other's attempt has reached, every change
\* of the status follows idle -> requested -> pending -> approved|denied ->
\* idle.
C18_StatusOrderUnderInterleaving ==
  [][ auth0AuthorizationState'.status # auth0AuthorizationState.status =>
        <<auth0AuthorizationState.status, auth0AuthorizationState'.status>>
          \in StatusOrder ]_vars

\* C19: with two overlapping attempts, the state never shows approved
\* together with the binding message of an attempt whose own poll has not
\* returned tokens.
C19_ApprovedOnlyWithOwnMessage ==
  \A b \in Atts :
    ( /\ auth0AuthorizationState.status = "approved"
      /\ apc[b] # "idle"
      /\ auth0AuthorizationState.message = amsg[b]
      /\ \A a \in Atts \ {b} : amsg[a] # amsg[b] )
    => apoll[b] = "tokens"

(***************************************************************************)
(* Error handling of pollCIBAResult and of the gateway's retry             *)
(***************************************************************************)

\* C15: when the provider answers expired_token at any attempt, the poll
\* fails with the authorization-expired error at that attempt: the answer is
\* the last one, no request follows it, and the poll has settled with that
\* error.
C15_ExpiredStopsPolling ==
  \A a \in Atts :
    wrapper[a] = "poll" =>
      \A i \in 1..Len(responses[a]) :
        responses[a][i] = "expired" =>
          /\ i = Len(responses[a])
          /\ requests[a] = i
          /\ ppc[a] = "settled"
          /\ pollResult[a] = "expired"

\* C16: an error code other than authorization_pending, access_denied and
\* expired_token fails at once with the polling error; a network failure on a
\* non-final attempt is swallowed and the next attempt follows after one
\* interval; on the final attempt it fails with the polling-failed error.
C16_OtherErrorAndNetworkFailure ==
  \A a \in Atts :
    (wrapper[a] = "poll" /\ responses[a] # <<>>) =>
      LET n == Len(responses[a])
          r == responses[a][n] IN
      /\ \A i \in 1..(n - 1) : responses[a][i] # "other"
      /\ r = "other" =>
           ppc[a] = "settled" /\ pollResult[a] = "polling_error" /\ requests[a] = n
      /\ (r = "network" /\ n = maxAttempts[a]) =>
           ppc[a] = "settled" /\ pollResult[a] = "failed_max" /\ requests[a] = n
      /\ (r = "network" /\ n < maxAttempts[a]) =>
           /\ pollAttempt[a] = n + 1
           /\ \/ ppc[a] = "wait" /\ requests[a] = n /\ waits[a] = n - 1
              \/ ppc[a] = "fetch" /\ requests[a] = n + 1 /\ waits[a] = n
           /\ waited[a] = waits[a] * interval[a]

\* C16 witness: a network failure at attempt 1 of 2 was swallowed, the second
\* request went out after one interval and failed too
C16_Witness ==
  \E a \in Atts :
    /\ wrapper[a] = "poll" /\ maxAttempts[a] = 2
    /\ responses[a] = <<"network", "network">>
    /\ pollResult[a] = "failed_max" /\ requests[a] = 2 /\ waits[a] = 1

\* the errors thrown for an application-level response of the remote service
AppLevelErrors ==
  { ErrCreateNotOk(l) : l \in StatusLines } \cup { ErrAgent(l) : l \in StatusLines }

\* C20: when thread creation or the run request is answered with an
\* application-level 4xx/5xx response, whatever its status code and status
\* text, no retry is made: the call returns the apology after that attempt.
C20_NoRetryOnStatusResponse ==
  \A p \in Procs :
    lastErr[p] \in AppLevelErrors =>
      /\ pc[p] = "done"
      /\ result[p].content = Apology /\ ~result[p].ok

\* C21: callAgentWithStream always terminates: a run attempt is only started
\* after at most maxRetries failures, a wait before a retry only after at
\* most maxRetries failures, the call never counts more than maxRetries + 1
\* failed attempts, and a started call eventually returns, also when every
\* attempt fails with a transient error.
C21_TerminatesWithinRetries ==
  /\ [](\A p \in Procs :
          /\ attempt[p] <= maxRetries + 1
          /\ pc[p] \in {"ensure", "awaitCreate", "awaitRun", "stream", "backoff"}
               => attempt[p] <= maxRetries)
  /\ \A p \in Procs : (pc[p] = "ensure") ~> (pc[p] = "done")

\* C21 witness: maxRetries + 1 attempts, each failed with a transient error,
\* and the call has returned
C21_Witness ==
  \E p \in Procs :
    /\ pc[p] = "done" /\ attempt[p] = maxRetries + 1
    /\ IsTransient(lastErr[p]) /\ ~result[p].ok

(***************************************************************************)
(* Properties of the event-stream decoder                                  *)
(***************************************************************************)

\* the decoder has finished: it returned after [DONE] or the body ended
SseFinished == sseState \in {"returned", "ended"}

\* C22: parseSSE emits the same sequence of events for a body however the
\* body is split across reads (the events are those of the body delivered by
\* one read), and un-terminated trailing content is decoded at the end of the
\* body as the same content followed by the blank-line separator would be:
\* its data lines joined with newlines and decoded once.
C22_SplitIndependentDecoding ==
  SseFinished =>
    /\ sseEvents = parseSSEWhole(sseStream)
    /\ sseState = "ended" => sseEvents = parseSSEWhole(sseStream \o <<NL, NL>>)

\* the first half of C22 by itself: the events do not depend on the split
SplitIndependent == SseFinished => sseEvents = parseSSEWhole(sseStream)

\* C23: once parseSSE has decoded a [DONE] payload it delivers the done event
\* and then no further event, also when more blocks are already in the
\* buffer or later in the body: a done event is the last event and the
\* decoder has returned; after it neither the events nor the content folded
\* by the callback change, and the content is the one folded from the events
\* up to [DONE].
C23_NothingAfterDone ==
  /\ [](/\ \A i \in 1..Len(sseEvents) :
             sseEvents[i].kind = "done" => i = Len(sseEvents) /\ sseState = "returned"
        /\ sseState = "returned" =>
             /\ sseEvents # <<>> /\ sseEvents[Len(sseEvents)].kind = "done"
             /\ sseContent = FoldAll(SubSeq(sseEvents, 1, Len(sseEvents) - 1), <<>>))
  /\ [][sseState = "returned" =>
          sseEvents' = sseEvents /\ sseContent' = sseContent]_vars

\* C23 witness: the decoder returned at [DONE] while a further complete block
\* with a text payload was in the body behind it
C23_Witness ==
  /\ sseState = "returned"
  /\ sseStream = <<DataField, DoneWord, NL, NL, DataField, TextWord, NL, NL>>
  /\ sseEvents = <<DoneEvent>>
  /\ sseContent = <<>>

(***************************************************************************)
(* Properties of the standards-based coordinator                           *)
(***************************************************************************)

\* how performCIBAAuthorization can settle without tokens: access_denied
\* (null) or a thrown error (initiation rejected, configuration missing,
\* timeout, polling failure)
FailedSettlements == Thrown \cup {"null"}

C25_PendingOnlyAfterInitiate ==
  \A a \in Atts :
    wrapper[a] \in {"ciba", "confirm"} =>
      /\ ppc[a] = "initiate" =>
           /\ authorizationState.status = "requested"
           /\ authorizationState.message \in BindingMessages
      /\ (ppc[a] = "settled" /\ pollResult[a] \in {"initiate", "config"}
            /\ wpc[a] \in {"awaitPoll", "onAuthReq"}) =>
           authorizationState.status = "requested"

\* the status a message is written together with: the binding messages by
\* the write of requested, the messages of onUnauthorized by its write of
\* denied, no message by the initial value and the resets
WrittenWith(m) ==
  IF m \in BindingMessages THEN "requested"
  ELSE IF m = NoMessage THEN "idle"
  ELSE "denied"

\* C26: every write of the authorization state replaces status and message
\* together, so the state a reader finds between two steps of an attempt
\* always pairs a status with a message written together with that status.
C26_StatusAndMessageWrittenTogether ==
  /\ authorizationState.status = WrittenWith(authorizationState.message)
  /\ auth0AuthorizationState.status = WrittenWith(auth0AuthorizationState.message)

\* C27: reading the authorization state (GET auth-status, which calls
\* getAuthorizationState) leaves status and message unchanged in every state,
\* whatever the checkout tool reports.
C27_ReadLeavesStateUnchanged ==
  [][ (served = NoServed /\ served' # NoServed) =>
        /\ auth0AuthorizationState' = auth0AuthorizationState
        /\ authorizationState' = authorizationState ]_vars

(***************************************************************************)
(* Properties of the fallback module                                       *)
(***************************************************************************)

\* C28: the fallback module's withAsyncAuthorization wrapper never invokes the
\* wrapped function while the module's authorizationState.status is other
\* than approved.
C28_FallbackInvokesOnlyWhenApproved ==
  \A a \in Atts : fbpc[a] = "fn" => fbAuthorizationState.status = "approved"

\* C29: the user id of an attempt is the context credential when there is
\* one, else params.cartData.userId, else params.userId; when none resolves
\* the wrapper fails with the missing-user-id error before any provider
\* request and without invoking the wrapped tool, and the step that fails
\* leaves authorizationState unchanged.
C29_UserIdOrderAndMissing ==
  /\ [](\A a \in Atts :
          wrapper[a] \in {"ciba", "confirm"} =>
            LET in == userInput[a] IN
            /\ in.cred # NoUser => userId[a] = in.cred
            /\ (in.cred = NoUser /\ in.cart # NoUser) => userId[a] = in.cart
            /\ (in.cred = NoUser /\ in.cart = NoUser) => userId[a] = in.param
            /\ userId[a] = NoUser =>
                 /\ wpc[a] = "threw" /\ outcome[a] = "missing_user"
                 /\ ppc[a] = "idle" /\ requests[a] = 0 /\ ~toolInvoked[a])
  /\ [][ \A a \in Atts :
           (wpc[a] = "idle" /\ wpc'[a] = "threw") =>
             /\ outcome'[a] = "missing_user"
             /\ authorizationState' = authorizationState ]_vars

\* C29 witness: no credential, both the cart-scoped and the generic field
\* present; the attempt runs with the cart-scoped user id
C29_Witness ==
  \E a \in Atts :
    /\ wrapper[a] = "ciba" /\ wpc[a] = "awaitPoll"
    /\ userInput[a] = Input(NoUser, "u-cart", "u-param")
    /\ userId[a] = "u-cart"

(***************************************************************************)
(* Cancellation                                                            *)
(***************************************************************************)

\* C30: once the enclosing request is aborted the pending waits are
\* cancelled: a poll that is waiting for its interval issues no further
\* token request, and a call that is waiting to retry starts no further
\* attempt.
C30_AbortCancelsWaits ==
  [][ aborted =>
        /\ \A a \in Atts : ppc[a] = "wait" => requests'[a] = requests[a]
        /\ \A p \in Procs : pc[p] = "backoff" => pc'[p] # "ensure" ]_vars

(***************************************************************************)
(* Properties of the status messages                                       *)
(***************************************************************************)

\* C31: at most one status message is stored at any time, and the
\* 'approved, processing' message of an attempt stays readable through
\* getAuthorizationStatusMessages until the wrapped tool of that attempt has
\* completed, also when another authorization attempt overlaps.
C31_ApprovedMessageUntilToolCompletes ==
  /\ Len(authorizationStatusMessages) <= 1
  /\ \A a \in Atts :
       mpc[a] = "tool" => authorizationStatusMessages = <<ApprovedMessage>>

(***************************************************************************)
(* Properties of the workflow-context tracking                             *)
(***************************************************************************)

\* C32: a workflow_context metadata event is emitted for a chunk only when
\* the chunk's workflowContext differs from the last-seen value of the
\* stream, the value of the most recent earlier chunk that carried one; a
\* chunk that repeats the last-seen context never produces the event.
C32_ContextEventOnlyOnChange ==
  ctxMetadata = "workflow_context" => ctxChunk.workflowContext # seenBefore

(***************************************************************************)
(* Pass-through and failure handling of the reclassifier                   *)
(***************************************************************************)

\* C33: a chunk that already carries an explicit event discriminator (a
\* string `type` field) is passed through unchanged as exactly one event,
\* whether it arrives as a JSON text line or as a structured object chunk.
C33_TypedChunkPassesThrough ==
  \A o \in ObjPool :
    (o.type.has /\ lastChunk \in {ObjectChunk(o), JsonLineChunk(o)}) =>
      lastEmitted = <<Event(o.type.s[1], <<>>, o)>>

\* a textual chunk of one line that is not JSON, holds no embedded JSON value
\* and is not plan-like
PlainLine(chunk) ==
  /\ chunk.kind = "string"
  /\ SplitLines(chunk.text, <<>>) = <<chunk.text>>
  /\ ~Parse(chunk.text).ok
  /\ FirstBrace(chunk.text) = 0
  /\ ~isPlanLikeStr(chunk.text)

\* C34: the reclassifier never raises; unparseable text that is not
\* plan-like is emitted as a raw event, and the response stream is closed
\* once, after the last event.
C34_MalformedDegradesToRaw ==
  /\ PlainLine(lastChunk) => lastEmitted = <<Event("raw", lastChunk.text, EmptyObj)>>
  /\ controller = "closed" => lastChunk = NoChunk

(***************************************************************************)
(* Properties of the chat endpoint's SSE response                          *)
(***************************************************************************)

Terminal(ev) == ev.type \in {"message", "error"}

\* C35: every SSE response of the chat endpoint ends with exactly one done
\* event as its last event, preceded by exactly one final message event or
\* exactly one error event, when the agent stream completes and when it
\* throws; no event is sent after done.
C35_ResponseEndsWithDone ==
  /\ \A i \in 1..Len(chatSent) : chatSent[i].type = "done" => i = Len(chatSent)
  /\ chatPc = "closed" =>
       /\ Len(chatSent) >= 2
       /\ chatSent[Len(chatSent)].type = "done"
       /\ Terminal(chatSent[Len(chatSent) - 1])
       /\ Cardinality({ i \in 1..Len(chatSent) : Terminal(chatSent[i]) }) = 1

\* C35 witness: a response with metadata and progress events whose agent
\* stream threw: the error event and the done signal end it
C35_Witness ==
  /\ chatPc = "closed"
  /\ Len(chatSent) = 4
  /\ chatSent[1].type = "metadata" /\ chatSent[2].type = "progress"
  /\ chatSent[3] = ChatEvent("error", TimeoutText)
  /\ chatSent[4].type = "done"

(***************************************************************************)
(* Properties of the thread cache                                          *)
(***************************************************************************)

\* the binding of c was touched no longer than the TTL ago
Fresh(c) ==
  /\ conversationThreadMap[c] # NoThread
  /\ now - conversationThreadTimestamps[c] <= TtlTicks

C37_MapsShareKeys ==
  /\ [](\A c \in Convs :
          conversationThreadMap[c] # NoThread <=> conversationThreadTimestamps[c] # NoTs)
  /\ [][ \A p \in Procs :
           (pc[p] = "awaitCreate" /\ pc'[p] \in {"backoff", "done"}) =>
             /\ conversationThreadMap' = conversationThreadMap
             /\ conversationThreadTimestamps' = conversationThreadTimestamps ]_vars

\* C37 witness: the binding of a conversation was swept, and the request
\* that should have created its next thread failed: the conversation has
\* neither a thread id nor a timestamp
C37_Witness ==
  \E p \in Procs :
    /\ pc[p] = "backoff" /\ threadId[p] = NoThread
    /\ evictedThread[conv[p]] # NoThread
    /\ conversationThreadMap[conv[p]] = NoThread
    /\ conversationThreadTimestamps[conv[p]] = NoTs

(***************************************************************************)
(* Properties of performCIBAAuthorization                                  *)
(***************************************************************************)

\* C38: performCIBAAuthorization polls with maxAttempts =
\* ceil(expires_in / interval), so the total waiting time
\* (maxAttempts - 1) * interval stays strictly below expires_in: no token
\* request is scheduled after the authorization request has expired; and a
\* failed initiation is followed by no token request.
C38_NoRequestAfterExpiry ==
  \A a \in Atts :
    /\ expiresIn[a] > 0 =>
         /\ (maxAttempts[a] - 1) * interval[a] < expiresIn[a]
         /\ waited[a] < expiresIn[a]
    /\ pollResult[a] = "initiate" => requests[a] = 0

\* C38 witness: expires_in = 3 and interval = 1 give three token requests,
\* the last one after two seconds of waiting, and then the timeout
C38_Witness ==
  \E a \in Atts :
    /\ expiresIn[a] = 3 /\ interval[a] = 1
    /\ requests[a] = 3 /\ waited[a] = 2
    /\ pollResult[a] = "timeout"

\* C39: in withAsyncUserConfirmation the onUnauthorized callback is invoked
\* exactly once for one denied or failed authorization attempt, and not at
\* all for an approved attempt whose tool succeeds.
C39_OnUnauthorizedOnce ==
  \A a \in Atts :
    (wrapper[a] = "confirm" /\ optUnauth[a] /\ wpc[a] \in {"threw", "returned"}) =>
      /\ outcome[a] \in Thrown \cup {"denied"} => unauthCalls[a] = 1
      /\ outcome[a] = "ok" => unauthCalls[a] = 0

====
